---- MODULE Spec2Model ----
(***************************************************************************)
(* Model of the naologic-reflow scheduling engine:                         *)
(*   ShiftCalculator  (src/src/utils/shift-calculator.ts)                  *)
(*   topologicalSort  (src/src/reflow/topological-sort.ts)                 *)
(*   ShiftCalendar    (src/src/utils/shift-calendar.ts)                    *)
(*   groupByWorkCenter / reflowFromFile (manager, reflow.service)          *)
(*                                                                         *)
(* Instants are minutes since an epoch that falls on a Sunday 00:00.       *)
(* The clock is scaled down: an hour has MinutesPerHour minutes (one       *)
(* minute of the model stands for thirty of the program), and the          *)
(* iteration cap of calculateEndDate (MAX_ITERATIONS, 10000 minutes in the *)
(* program) is scaled with it.  A day keeps its twenty-four hours, a week  *)
(* its seven days and the search for a start its thirty days.  Civil-time  *)
(* effects of the date library (DST) are not modelled.                     *)
(* Work-order numbers are distinct within one input.                       *)
(***************************************************************************)
EXTENDS Integers, Sequences, FiniteSets, TLC

\* ------------------------------------------------------------------------
\* Bounds of the model
\* ------------------------------------------------------------------------
MinutesPerHour == 2
MAX_ITERATIONS == 333
MaxStart == 5
MaxDuration == 2
MaxDay == 8

\* Program constants
HoursPerDay == 24
DaysPerWeek == 7
MaxSearchDays == 30

MinutesPerDay == MinutesPerHour * HoursPerDay

\* value returned in place of an instant when the operation throws
Thrown == -1

\* ------------------------------------------------------------------------
\* Generic helpers over sequences (arrays; Array.filter is SelectSeq)
\* ------------------------------------------------------------------------
Range(s) == {s[i] : i \in 1..Len(s)}

RECURSIVE SumSeq(_, _)
SumSeq(s, i) == IF i > Len(s) THEN 0 ELSE s[i] + SumSeq(s, i + 1)

\* ------------------------------------------------------------------------
\* Civil-time accessors of an instant (luxon weekday % 7, hour, minute)
\* ------------------------------------------------------------------------
weekday(t) == (t \div MinutesPerDay) % DaysPerWeek
hour(t) == (t \div MinutesPerHour) % HoursPerDay
minute(t) == t % MinutesPerHour

\* ------------------------------------------------------------------------
\* ShiftCalculator
\* ------------------------------------------------------------------------
doesShiftSpanMidnight(shift) == shift.endHour <= shift.startHour

getShiftsForDay(wc, dayOfWeek) == {sh \in wc.shifts : sh.dayOfWeek = dayOfWeek}

\* variant: the end hour of a shift belongs to it
isTimeInShiftClosedEnd(dateTime, shift) ==
    LET timeInMinutes == hour(dateTime) * MinutesPerHour + minute(dateTime)
        shiftStartMinutes == shift.startHour * MinutesPerHour
        shiftEndMinutes == shift.endHour * MinutesPerHour
    IN IF doesShiftSpanMidnight(shift)
       THEN IF weekday(dateTime) = shift.dayOfWeek
            THEN timeInMinutes >= shiftStartMinutes
            ELSE timeInMinutes <= shiftEndMinutes
       ELSE timeInMinutes >= shiftStartMinutes /\ timeInMinutes <= shiftEndMinutes

isTimeInShift(dateTime, shift) ==
    LET timeInMinutes == hour(dateTime) * MinutesPerHour + minute(dateTime)
        shiftStartMinutes == shift.startHour * MinutesPerHour
        shiftEndMinutes == shift.endHour * MinutesPerHour
    IN IF doesShiftSpanMidnight(shift)
       THEN IF weekday(dateTime) = shift.dayOfWeek
            THEN timeInMinutes >= shiftStartMinutes
            ELSE timeInMinutes < shiftEndMinutes
       ELSE timeInMinutes >= shiftStartMinutes /\ timeInMinutes < shiftEndMinutes

\* variant: the previous weekday is computed without wrapping around the week
isInShiftNoWrap(wc, dateTime) ==
    LET currentDayOfWeek == weekday(dateTime)
        previousDayOfWeek == currentDayOfWeek - 1
    IN \/ \E sh \in getShiftsForDay(wc, currentDayOfWeek) : isTimeInShift(dateTime, sh)
       \/ \E sh \in getShiftsForDay(wc, previousDayOfWeek) :
             doesShiftSpanMidnight(sh) /\ isTimeInShift(dateTime, sh)

isInShift(wc, dateTime) ==
    LET currentDayOfWeek == weekday(dateTime)
        previousDayOfWeek == (currentDayOfWeek + 6) % DaysPerWeek
    IN \/ \E sh \in getShiftsForDay(wc, currentDayOfWeek) : isTimeInShift(dateTime, sh)
       \/ \E sh \in getShiftsForDay(wc, previousDayOfWeek) :
             doesShiftSpanMidnight(sh) /\ isTimeInShift(dateTime, sh)

\* variant: the end of a window is not blocked
isInMaintenanceWindowOpenEnd(wc, dateTime) ==
    \E i \in 1..Len(wc.maintenanceWindows) :
        /\ dateTime >= wc.maintenanceWindows[i].startDate
        /\ dateTime < wc.maintenanceWindows[i].endDate

isInMaintenanceWindow(wc, dateTime) ==
    \E i \in 1..Len(wc.maintenanceWindows) :
        /\ dateTime >= wc.maintenanceWindows[i].startDate
        /\ dateTime <= wc.maintenanceWindows[i].endDate

\* variant: maintenance windows are not consulted
isWorkingTimeShiftsOnly(wc, dateTime) == isInShift(wc, dateTime)

isWorkingTime(wc, dateTime) ==
    ~isInMaintenanceWindow(wc, dateTime) /\ isInShift(wc, dateTime)

\* The loops of calculateEndDate and getNextValidStartTime are bounded (by
\* MAX_ITERATIONS and by the thirty days of the search).  Each is modelled by
\* its body, a step on the loop's variables that leaves a finished loop
\* alone, and by an operator that runs up to n iterations of it.

\* variant: every elapsed minute is counted as worked
calculateEndDateStepWallClock(wc, loop) ==
    IF loop.thrown \/ loop.remainingMinutes <= 0 THEN loop
    ELSE IF loop.iterationCount >= MAX_ITERATIONS THEN [loop EXCEPT !.thrown = TRUE]
    ELSE [currentTime |-> loop.currentTime + 1,
          remainingMinutes |-> loop.remainingMinutes - 1,
          iterationCount |-> loop.iterationCount + 1,
          thrown |-> FALSE]

\* one iteration of `while (remainingMinutes > 0)`
calculateEndDateStep(wc, loop) ==
    IF loop.thrown \/ loop.remainingMinutes <= 0 THEN loop
    ELSE IF loop.iterationCount >= MAX_ITERATIONS THEN [loop EXCEPT !.thrown = TRUE]
    ELSE [currentTime |-> loop.currentTime + 1,
          remainingMinutes |-> IF isWorkingTime(wc, loop.currentTime)
                               THEN loop.remainingMinutes - 1
                               ELSE loop.remainingMinutes,
          iterationCount |-> loop.iterationCount + 1,
          thrown |-> FALSE]

RECURSIVE calculateEndDateLoop(_, _, _)
calculateEndDateLoop(wc, loop, n) ==
    IF n = 0 \/ loop.thrown \/ loop.remainingMinutes <= 0 THEN loop
    ELSE IF n = 1 THEN calculateEndDateStep(wc, loop)
    ELSE calculateEndDateLoop(wc, calculateEndDateLoop(wc, loop, n \div 2), n - n \div 2)

\* variant: the cap is reached one iteration early
calculateEndDateShortCap(wc, startDate, durationMinutes) ==
    IF durationMinutes < 0 THEN Thrown
    ELSE IF durationMinutes = 0 THEN startDate
    ELSE LET loop == calculateEndDateLoop(wc,
                         [currentTime |-> startDate, remainingMinutes |-> durationMinutes,
                          iterationCount |-> 1, thrown |-> FALSE],
                         MAX_ITERATIONS + 1)
         IN IF loop.thrown THEN Thrown ELSE loop.currentTime

\* the loop ends within MAX_ITERATIONS advancing iterations and one more check
calculateEndDate(wc, startDate, durationMinutes) ==
    IF durationMinutes < 0 THEN Thrown
    ELSE IF durationMinutes = 0 THEN startDate
    ELSE LET loop == calculateEndDateLoop(wc,
                         [currentTime |-> startDate, remainingMinutes |-> durationMinutes,
                          iterationCount |-> 0, thrown |-> FALSE],
                         MAX_ITERATIONS + 1)
         IN IF loop.thrown THEN Thrown ELSE loop.currentTime

\* variant: the search advances minute by minute
getNextValidStartTimeStepByMinute(wc, loop, maxSearchTime) ==
    IF loop.found \/ loop.currentTime >= maxSearchTime THEN loop
    ELSE IF isWorkingTime(wc, loop.currentTime) THEN [loop EXCEPT !.found = TRUE]
    ELSE [loop EXCEPT !.currentTime = loop.currentTime + 1]

\* one iteration of `while (currentTime < maxSearchTime)`
getNextValidStartTimeStep(wc, loop, maxSearchTime) ==
    IF loop.found \/ loop.currentTime >= maxSearchTime THEN loop
    ELSE IF isWorkingTime(wc, loop.currentTime) THEN [loop EXCEPT !.found = TRUE]
    ELSE [loop EXCEPT !.currentTime = loop.currentTime + MinutesPerHour]

RECURSIVE getNextValidStartTimeLoop(_, _, _, _)
getNextValidStartTimeLoop(wc, loop, maxSearchTime, n) ==
    IF n = 0 \/ loop.found \/ loop.currentTime >= maxSearchTime THEN loop
    ELSE IF n = 1 THEN getNextValidStartTimeStep(wc, loop, maxSearchTime)
    ELSE getNextValidStartTimeLoop(wc,
             getNextValidStartTimeLoop(wc, loop, maxSearchTime, n \div 2),
             maxSearchTime, n - n \div 2)

\* variant: the given instant is returned without a search
getNextValidStartTimeNoSearch(wc, afterDate) == afterDate

\* the search takes one iteration per hour of the thirty days
getNextValidStartTime(wc, afterDate) ==
    LET loop == getNextValidStartTimeLoop(wc,
                    [currentTime |-> afterDate, found |-> FALSE],
                    afterDate + MaxSearchDays * MinutesPerDay,
                    MaxSearchDays * HoursPerDay)
    IN IF loop.found THEN loop.currentTime ELSE Thrown

\* ------------------------------------------------------------------------
\* Errors.  A thrown Error is a record naming its kind and the identifiers
\* its message lists.
\* ------------------------------------------------------------------------
NoError == [kind |-> "none", ids |-> <<>>]

MkError(kind, ids) == [kind |-> kind, ids |-> ids]

\* absent DateTime (null)
Null == -2

\* ------------------------------------------------------------------------
\* topologicalSort (Kahn's algorithm)
\* ------------------------------------------------------------------------
Numbers(workOrders) == [i \in 1..Len(workOrders) |-> workOrders[i].workOrderNumber]

\* workOrderMap.get: the order stored under a number
getWorkOrder(workOrders, woNumber) ==
    workOrders[CHOOSE i \in 1..Len(workOrders) : workOrders[i].workOrderNumber = woNumber]

\* variant: the dependencies are not counted
initialInDegreeZero(workOrders) ==
    [n \in Range(Numbers(workOrders)) |-> 0]

\* inDegree after initialisation: the length of the dependency list
initialInDegree(workOrders) ==
    [n \in Range(Numbers(workOrders)) |->
        Len(getWorkOrder(workOrders, n).dependsOnWorkOrderIds)]

\* the dependents pushed onto adjacencyList[depId] by one order
RECURSIVE dependentsFromOrder(_, _, _)
dependentsFromOrder(wo, depId, j) ==
    IF j > Len(wo.dependsOnWorkOrderIds) THEN <<>>
    ELSE (IF wo.dependsOnWorkOrderIds[j] = depId THEN <<wo.workOrderNumber>> ELSE <<>>)
         \o dependentsFromOrder(wo, depId, j + 1)

\* adjacencyList.get(depId) after the build loop
RECURSIVE adjacencyList(_, _, _)
adjacencyList(workOrders, depId, i) ==
    IF i > Len(workOrders) THEN <<>>
    ELSE dependentsFromOrder(workOrders[i], depId, 1)
         \o adjacencyList(workOrders, depId, i + 1)

\* variant: the queue is seeded in reverse input order
initialQueueReversed(workOrders) ==
    LET deg == initialInDegree(workOrders)
        IsZero(n) == deg[n] = 0
        seeds == SelectSeq(Numbers(workOrders), IsZero)
    IN [i \in 1..Len(seeds) |-> seeds[Len(seeds) + 1 - i]]

\* the initial queue: numbers of in-degree 0 in map (input) order
initialQueue(workOrders) ==
    LET deg == initialInDegree(workOrders)
        IsZero(n) == deg[n] = 0
    IN SelectSeq(Numbers(workOrders), IsZero)

\* dependents.forEach: decrease in-degree, enqueue when it becomes 0
RECURSIVE relaxDependents(_, _, _, _)
relaxDependents(dependents, k, deg, q) ==
    IF k > Len(dependents) THEN [inDegree |-> deg, queue |-> q]
    ELSE LET d == dependents[k]
             currentInDegree == deg[d]
         IN relaxDependents(dependents, k + 1,
                [deg EXCEPT ![d] = currentInDegree - 1],
                IF currentInDegree - 1 = 0 THEN Append(q, d) ELSE q)

\* variant: every order that has dependencies is listed
unprocessedNumbersWithDependencies(workOrders, sortedOrders) ==
    LET HasDeps(n) == Len(getWorkOrder(workOrders, n).dependsOnWorkOrderIds) > 0
    IN SelectSeq(Numbers(workOrders), HasDeps)

\* the orders that were not processed, in input order
unprocessedNumbers(workOrders, sortedOrders) ==
    LET processedNumbers == Range(Numbers(sortedOrders))
        NotProcessed(n) == n \notin processedNumbers
    IN SelectSeq(Numbers(workOrders), NotProcessed)

\* ------------------------------------------------------------------------
\* ShiftCalendar helpers.  scheduledStates is a Map: a sequence of entries
\* [key, workOrder, scheduledStartDate, scheduledEndDate] in insertion order.
\* ------------------------------------------------------------------------
\* variant: a range that ends where the other starts counts as overlapping
hasTimeOverlapTouching(start1, end1, start2, end2) == start1 < end2 /\ end1 >= start2

hasTimeOverlap(start1, end1, start2, end2) == start1 < end2 /\ end1 > start2

mapHas(scheduledStates, key) ==
    \E i \in 1..Len(scheduledStates) : scheduledStates[i].key = key

mapGet(scheduledStates, key) ==
    scheduledStates[CHOOSE i \in 1..Len(scheduledStates) : scheduledStates[i].key = key]

\* variant: the table keeps only the newest entry
mapSetForgetful(scheduledStates, entry) == <<entry>>

\* Map.set: replace in place when the key exists, else append
mapSet(scheduledStates, entry) ==
    IF mapHas(scheduledStates, entry.key)
    THEN [i \in 1..Len(scheduledStates) |->
             IF scheduledStates[i].key = entry.key THEN entry ELSE scheduledStates[i]]
    ELSE Append(scheduledStates, entry)

\* variant: only the first order is validated
invalidWorkOrdersFirstOnly(wc, workOrders) ==
    IF Len(workOrders) > 0 /\ workOrders[1].workCenterId # wc.name
    THEN <<workOrders[1]>> ELSE <<>>

invalidWorkOrders(wc, workOrders) ==
    LET Foreign(wo) == wo.workCenterId # wc.name
    IN SelectSeq(workOrders, Foreign)

maintenanceOrders(workOrders) ==
    LET IsMaint(wo) == wo.isMaintenance
    IN SelectSeq(workOrders, IsMaint)

regularOrders(workOrders) ==
    LET IsRegular(wo) == ~wo.isMaintenance
    IN SelectSeq(workOrders, IsRegular)

\* getLatestDependencyEndTime: the loop over dependsOnWorkOrderIds from
\* position j on; owner is the entry whose end object is the current latest
RECURSIVE getLatestDependencyEndTimeLoop(_, _, _, _, _, _)
getLatestDependencyEndTimeLoop(workOrder, scheduledStates, allWorkOrders, j, latest, owner) ==
    IF j > Len(workOrder.dependsOnWorkOrderIds)
    THEN [error |-> NoError, value |-> latest, owner |-> owner]
    ELSE LET depId == workOrder.dependsOnWorkOrderIds[j]
         IN IF depId \notin Range(Numbers(allWorkOrders))
            THEN [error |-> MkError("missing_predecessor", <<workOrder.workOrderNumber, depId>>),
                  value |-> Null, owner |-> ""]
            ELSE IF ~mapHas(scheduledStates, depId)
            THEN [error |-> MkError("dependency_not_scheduled", <<workOrder.workOrderNumber, depId>>),
                  value |-> Null, owner |-> ""]
            ELSE LET depState == mapGet(scheduledStates, depId)
                 IN IF latest = Null \/ depState.scheduledEndDate > latest
                    THEN getLatestDependencyEndTimeLoop(workOrder, scheduledStates,
                             allWorkOrders, j + 1, depState.scheduledEndDate, depState.key)
                    ELSE getLatestDependencyEndTimeLoop(workOrder, scheduledStates,
                             allWorkOrders, j + 1, latest, owner)

\* variant: the predecessors are not looked up
getLatestDependencyEndTimeUnchecked(workOrder, scheduledStates, allWorkOrders) ==
    [error |-> NoError, value |-> Null, owner |-> ""]

getLatestDependencyEndTime(workOrder, scheduledStates, allWorkOrders) ==
    getLatestDependencyEndTimeLoop(workOrder, scheduledStates, allWorkOrders, 1, Null, "")

\* index of the first scheduled entry that overlaps [start, end), 0 if none
firstOverlap(scheduledStates, start, end) ==
    LET hits == {i \in 1..Len(scheduledStates) :
                    hasTimeOverlap(start, end, scheduledStates[i].scheduledStartDate,
                                   scheduledStates[i].scheduledEndDate)}
    IN IF hits = {} THEN 0 ELSE CHOOSE i \in hits : \A k \in hits : i <= k

\* variant: a conflict moves the candidate on by a single minute
getEarliestNonConflictingTimeStepByMinute(wc, loop, durationMinutes, scheduledStates) ==
    IF loop.thrown \/ ~loop.hasConflict THEN loop
    ELSE LET proposedEnd == calculateEndDate(wc, loop.currentStart, durationMinutes)
         IN IF proposedEnd = Thrown THEN [loop EXCEPT !.thrown = TRUE]
            ELSE LET i == firstOverlap(scheduledStates, loop.currentStart, proposedEnd)
                 IN IF i = 0 THEN [loop EXCEPT !.hasConflict = FALSE]
                    ELSE [loop EXCEPT !.currentStart = loop.currentStart + 1]

\* one pass of the body of `while (hasConflict)`; loop is
\* [currentStart, hasConflict, thrown]
getEarliestNonConflictingTimeStep(wc, loop, durationMinutes, scheduledStates) ==
    IF loop.thrown \/ ~loop.hasConflict THEN loop
    ELSE LET proposedEnd == calculateEndDate(wc, loop.currentStart, durationMinutes)
         IN IF proposedEnd = Thrown THEN [loop EXCEPT !.thrown = TRUE]
            ELSE LET i == firstOverlap(scheduledStates, loop.currentStart, proposedEnd)
                 IN IF i = 0 THEN [loop EXCEPT !.hasConflict = FALSE]
                    ELSE [loop EXCEPT !.currentStart = scheduledStates[i].scheduledEndDate]

\* the while loop: a pass is made from the current candidate until a pass
\* leaves the loop (the singleton set holds the loop record after the pass)
RECURSIVE getEarliestNonConflictingTime(_, _, _, _)
getEarliestNonConflictingTime(wc, currentStart, durationMinutes, scheduledStates) ==
    CHOOSE result \in
        {IF next.thrown THEN Thrown
         ELSE IF ~next.hasConflict THEN next.currentStart
         ELSE getEarliestNonConflictingTime(wc, next.currentStart, durationMinutes,
                                            scheduledStates) :
            next \in {getEarliestNonConflictingTimeStep(wc,
                        [currentStart |-> currentStart, hasConflict |-> TRUE, thrown |-> FALSE],
                        durationMinutes, scheduledStates)}} : TRUE

\* ------------------------------------------------------------------------
\* ShiftCalendar.scheduleWorkOrder
\* ------------------------------------------------------------------------
Placement(error, start, end) ==
    [error |-> error, scheduledStartDate |-> start, scheduledEndDate |-> end]

\* variant: the dependency end is not taken into account
startIgnoringDependencies(workOrder, dependencyEndTime) == workOrder.startDate

\* variant: the dependency end is taken even when it is earlier
startAtDependencyEnd(workOrder, dependencyEndTime) ==
    IF dependencyEndTime # Null THEN dependencyEndTime ELSE workOrder.startDate

\* earliestStart after the dependency check
startAfterDependencies(workOrder, dependencyEndTime) ==
    IF dependencyEndTime # Null /\ dependencyEndTime > workOrder.startDate
    THEN dependencyEndTime
    ELSE workOrder.startDate

scheduleWorkOrder(wc, workOrder, scheduledStates, allWorkOrders) ==
    LET dep == IF Len(workOrder.dependsOnWorkOrderIds) > 0
               THEN getLatestDependencyEndTime(workOrder, scheduledStates, allWorkOrders)
               ELSE [error |-> NoError, value |-> Null, owner |-> ""]
    IN IF dep.error # NoError THEN Placement(dep.error, Null, Null)
       ELSE
       LET earliestStart == startAfterDependencies(workOrder, dep.value)
           conflictEndTime == getEarliestNonConflictingTime(wc, earliestStart,
                                  workOrder.durationMinutes, scheduledStates)
       IN IF conflictEndTime = Thrown
          THEN Placement(MkError("infinite_loop_protection", <<workOrder.workOrderNumber>>), Null, Null)
          ELSE
          LET earliestStart2 == IF conflictEndTime > earliestStart
                                THEN conflictEndTime ELSE earliestStart
              validStartTime == getNextValidStartTime(wc, earliestStart2)
          IN IF validStartTime = Thrown
             THEN Placement(MkError("no_valid_working_time", <<workOrder.workOrderNumber>>), Null, Null)
             ELSE
             LET validEndTime == calculateEndDate(wc, validStartTime, workOrder.durationMinutes)
             IN IF validEndTime = Thrown
                THEN Placement(MkError("infinite_loop_protection", <<workOrder.workOrderNumber>>), Null, Null)
                ELSE Placement(NoError, validStartTime, validEndTime)

\* ------------------------------------------------------------------------
\* ShiftCalendar.determineChangeReason / createScheduleChange
\* ------------------------------------------------------------------------
Reason(type, id, number, windowStart, windowEnd) ==
    [type |-> type, id |-> id, number |-> number,
     windowStart |-> windowStart, windowEnd |-> windowEnd]

NoChange == Reason("no_change", "", "", Null, Null)

\* the positional key `wo-${index}`
woKey(index) == "wo-" \o ToString(index)

\* allWorkOrders.indexOf(workOrder), 0-based
indexOf(allWorkOrders, workOrder) ==
    LET hits == {i \in 1..Len(allWorkOrders) :
                    allWorkOrders[i].workOrderNumber = workOrder.workOrderNumber}
    IN IF hits = {} THEN -1 ELSE (CHOOSE i \in hits : \A k \in hits : i <= k) - 1

\* allWorkOrders.findIndex(wo => wo.workOrderNumber === depId ||
\*                               allWorkOrders.indexOf(wo).toString() === depId)
findDepIndex(allWorkOrders, depId) ==
    LET hits == {i \in 1..Len(allWorkOrders) :
                    \/ allWorkOrders[i].workOrderNumber = depId
                    \/ ToString(i - 1) = depId}
    IN IF hits = {} THEN -1 ELSE (CHOOSE i \in hits : \A k \in hits : i <= k) - 1

\* the loop that looks for the dependency that caused the delay; "" if none
RECURSIVE findCausingDependency(_, _, _, _, _)
findCausingDependency(workOrder, scheduledStates, allWorkOrders, latestOwner, j) ==
    IF j > Len(workOrder.dependsOnWorkOrderIds) THEN NoChange
    ELSE LET depIndex == findDepIndex(allWorkOrders, workOrder.dependsOnWorkOrderIds[j])
             key == woKey(depIndex)
         IN IF mapHas(scheduledStates, key) /\ mapGet(scheduledStates, key).key = latestOwner
            THEN Reason("dependency", key,
                        mapGet(scheduledStates, key).workOrder.workOrderNumber, Null, Null)
            ELSE findCausingDependency(workOrder, scheduledStates, allWorkOrders,
                                       latestOwner, j + 1)

dependencyReason(workOrder, scheduledStates, allWorkOrders) ==
    IF Len(workOrder.dependsOnWorkOrderIds) > 0
    THEN LET latest == getLatestDependencyEndTime(workOrder, scheduledStates, allWorkOrders)
         IN IF latest.value # Null /\ latest.value > workOrder.startDate
            THEN findCausingDependency(workOrder, scheduledStates, allWorkOrders,
                                       latest.owner, 1)
            ELSE NoChange
    ELSE NoChange

workCenterConflictReason(workOrder, scheduledStates, allWorkOrders) ==
    LET self == woKey(indexOf(allWorkOrders, workOrder))
        hits == {i \in 1..Len(scheduledStates) :
                    /\ scheduledStates[i].key # self
                    /\ hasTimeOverlap(workOrder.startDate, workOrder.endDate,
                                      scheduledStates[i].scheduledStartDate,
                                      scheduledStates[i].scheduledEndDate)}
    IN IF hits = {} THEN NoChange
       ELSE LET i == CHOOSE m \in hits : \A k \in hits : m <= k
            IN Reason("work_center_conflict", scheduledStates[i].key,
                      scheduledStates[i].workOrder.workOrderNumber, Null, Null)

\* variant: the window's endpoints count as part of the window
maintenanceReasonInclusive(wc, workOrder) ==
    LET hits == {i \in 1..Len(wc.maintenanceWindows) :
                    /\ workOrder.startDate <= wc.maintenanceWindows[i].endDate
                    /\ workOrder.endDate >= wc.maintenanceWindows[i].startDate}
    IN IF hits = {} THEN NoChange
       ELSE LET i == CHOOSE m \in hits : \A k \in hits : m <= k
            IN Reason("maintenance", "", "", wc.maintenanceWindows[i].startDate,
                      wc.maintenanceWindows[i].endDate)

maintenanceReason(wc, workOrder) ==
    LET hits == {i \in 1..Len(wc.maintenanceWindows) :
                    hasTimeOverlap(workOrder.startDate, workOrder.endDate,
                                   wc.maintenanceWindows[i].startDate,
                                   wc.maintenanceWindows[i].endDate)}
    IN IF hits = {} THEN NoChange
       ELSE LET i == CHOOSE m \in hits : \A k \in hits : m <= k
            IN Reason("maintenance", "", "", wc.maintenanceWindows[i].startDate,
                      wc.maintenanceWindows[i].endDate)

determineChangeReason(wc, workOrder, scheduledStates, allWorkOrders) ==
    LET dep == dependencyReason(workOrder, scheduledStates, allWorkOrders)
        busy == workCenterConflictReason(workOrder, scheduledStates, allWorkOrders)
        maint == maintenanceReason(wc, workOrder)
    IN IF dep # NoChange THEN dep
       ELSE IF busy # NoChange THEN busy
       ELSE IF maint # NoChange THEN maint
       ELSE NoChange

createScheduleChange(wc, originalWorkOrder, scheduleState, scheduledStates, allWorkOrders) ==
    LET delayMinutes == scheduleState.scheduledStartDate - originalWorkOrder.startDate
    IN [workOrderNumber |-> originalWorkOrder.workOrderNumber,
        originalStartDate |-> originalWorkOrder.startDate,
        originalEndDate |-> originalWorkOrder.endDate,
        newStartDate |-> scheduleState.scheduledStartDate,
        newEndDate |-> scheduleState.scheduledEndDate,
        delayMinutes |-> delayMinutes,
        reason |-> IF delayMinutes = 0 THEN NoChange
                   ELSE determineChangeReason(wc, originalWorkOrder, scheduledStates,
                                              allWorkOrders)]

\* ------------------------------------------------------------------------
\* groupByWorkCenter: the orders whose workCenterId is the center's name
\* ------------------------------------------------------------------------
relevantWorkOrders(wc, allOrders) ==
    LET Relevant(wo) == wo.workCenterId = wc.name
    IN SelectSeq(allOrders, Relevant)

\* ------------------------------------------------------------------------
\* Assembling the result of ShiftCalendar.schedule
\* ------------------------------------------------------------------------
\* variant: the fixed orders are listed first
scheduledWorkOrdersFixedFirst(workOrders, scheduledStates) ==
    LET listed == maintenanceOrders(workOrders) \o regularOrders(workOrders)
    IN [i \in 1..Len(listed) |->
           LET state == mapGet(scheduledStates, listed[i].workOrderNumber)
           IN [listed[i] EXCEPT !.startDate = state.scheduledStartDate,
                                !.endDate = state.scheduledEndDate]]

scheduledWorkOrdersOf(workOrders, scheduledStates) ==
    [i \in 1..Len(workOrders) |->
        LET state == mapGet(scheduledStates, workOrders[i].workOrderNumber)
        IN [workOrders[i] EXCEPT !.startDate = state.scheduledStartDate,
                                 !.endDate = state.scheduledEndDate]]

\* variant: only the movable orders are counted as unchanged
summaryOfMovableOnly(workOrders, changeList) ==
    LET Changed(c) == c.delayMinutes > 0
        changedCount == Len(SelectSeq(changeList, Changed))
        delays == [i \in 1..Len(changeList) |-> changeList[i].delayMinutes]
    IN [totalWorkOrders |-> Len(workOrders),
        changedWorkOrders |-> changedCount,
        unchangedWorkOrders |-> Len(regularOrders(workOrders)) - changedCount,
        maintenanceWorkOrders |-> Len(maintenanceOrders(workOrders)),
        totalDelayMinutes |-> SumSeq(delays, 1)]

summaryOf(workOrders, changeList) ==
    LET Changed(c) == c.delayMinutes > 0
        changedCount == Len(SelectSeq(changeList, Changed))
        delays == [i \in 1..Len(changeList) |-> changeList[i].delayMinutes]
    IN [totalWorkOrders |-> Len(workOrders),
        changedWorkOrders |-> changedCount,
        unchangedWorkOrders |-> Len(workOrders) - changedCount,
        maintenanceWorkOrders |-> Len(maintenanceOrders(workOrders)),
        totalDelayMinutes |-> SumSeq(delays, 1)]

NoSummary ==
    [totalWorkOrders |-> 0, changedWorkOrders |-> 0, unchangedWorkOrders |-> 0,
     maintenanceWorkOrders |-> 0, totalDelayMinutes |-> 0]

NoResult == [scheduledWorkOrders |-> <<>>, changes |-> <<>>, summary |-> NoSummary]

\* ------------------------------------------------------------------------
\* Inputs
\* ------------------------------------------------------------------------
CenterName == "A"
OtherCenterName == "B"

Shift(d, s, e) == [dayOfWeek |-> d, startHour |-> s, endHour |-> e]

Daily(s, e) == {Shift(d, s, e) : d \in 0..(DaysPerWeek - 1)}

Window(s, e) == [startDate |-> s, endDate |-> e]

WorkCenter(shifts, windows) ==
    [name |-> CenterName, shifts |-> shifts, maintenanceWindows |-> windows]

Centers ==
    { WorkCenter(Daily(1, 3), <<>>),
      WorkCenter(Daily(1, 3), <<Window(3, 4)>>),
      WorkCenter(Daily(0, 1) \cup Daily(2, 3), <<>>),
      WorkCenter({Shift(0, 3, 1)}, <<>>),
      WorkCenter({}, <<>>) }

WorkOrder(n, wcId, s, d, m, deps) ==
    [workOrderNumber |-> n, workCenterId |-> wcId, startDate |-> s, endDate |-> s + d,
     durationMinutes |-> d, isMaintenance |-> m, dependsOnWorkOrderIds |-> deps]

Starts == 0..MaxStart
Durations == 1..MaxDuration

\* two orders of this center with free timing; "b" may depend on "a" or
\* "a" on "b" (an input that is not yet in dependency order)
TimingInputs ==
    { << WorkOrder("a", CenterName, sa, da, ma, deps[1]),
         WorkOrder("b", CenterName, sb, db, mb, deps[2]) >> :
        sa \in Starts, da \in Durations, ma \in BOOLEAN,
        sb \in Starts, db \in Durations, mb \in BOOLEAN,
        deps \in { <<(<<>>), (<<>>)>>, <<(<<>>), <<"a">> >>, << <<"b">>, (<<>>)>> } }

\* three orders with free dependency lists (self, cyclic, duplicated and
\* missing predecessors included); "a" and "b" may belong to another center
DependencyInputs ==
    { << WorkOrder("a", wcA, 4, 1, FALSE, depsA),
         WorkOrder("b", wcB, 2, 2, mb, depsB),
         WorkOrder("c", CenterName, sc, 1, mc, depsC) >> :
        wcA \in {CenterName, OtherCenterName},
        wcB \in {CenterName, OtherCenterName},
        depsA \in { <<>>, <<"b">>, <<"c">>, <<"a">>, <<"x">>, <<"x", "c">> },
        mb \in BOOLEAN,
        depsB \in { <<>>, <<"a">>, <<"c">> },
        sc \in {2, 5}, mc \in BOOLEAN,
        depsC \in { <<>>, <<"a">>, <<"b">>, <<"a", "b">>, <<"b", "a">>, <<"b", "b">> } }

DependencyCenters ==
    { WorkCenter(Daily(1, 3), <<>>),
      WorkCenter(Daily(1, 3), <<Window(3, 4)>>) }

\* the instant of weekday d (0 = Sunday), hour h and minute m of the first week
At(d, h, m) == d * MinutesPerDay + h * MinutesPerHour + m

Hours(n) == n * MinutesPerHour

Weekdays(s, e) == {Shift(d, s, e) : d \in 1..5}

\* work centers of the documented scenarios and of the edge cases of the
\* shift logic: office hours, a lunch break, Friday and Monday only, a double
\* shift with a maintenance window, night shifts (one from Saturday into
\* Sunday), shifts whose start and end hour coincide, adjoining windows,
\* one hour a week, and no shift at all
OfficeCenter == WorkCenter(Weekdays(8, 17), <<>>)
LunchCenter == WorkCenter(Weekdays(8, 12) \cup Weekdays(13, 17), <<>>)
WeekendCenter == WorkCenter({Shift(5, 8, 17), Shift(1, 8, 17)}, <<>>)
DoubleShiftCenter ==
    WorkCenter(Weekdays(6, 14) \cup Weekdays(14, 22), <<Window(At(2, 10, 0), At(2, 13, 0))>>)

\* a center whose maintenance window covers every instant a search of
\* thirty days can reach from the first MaxDay days
BlockedCenter ==
    WorkCenter(Daily(9, 17), <<Window(0, (MaxDay + MaxSearchDays + 1) * MinutesPerDay)>>)

\* a center that works on Sunday from 00:00 to 01:00, with a maintenance
\* window of the single instant 00:00 on each of the first six Sundays
OnTheHourBlockedCenter ==
    WorkCenter({Shift(0, 0, 1)},
               [k \in 1..6 |-> Window(At(7 * (k - 1), 0, 0), At(7 * (k - 1), 0, 0))])

CalendarCenters ==
    { OfficeCenter, LunchCenter, WeekendCenter, DoubleShiftCenter,
      BlockedCenter, OnTheHourBlockedCenter,
      WorkCenter({Shift(6, 22, 6)}, <<>>),
      WorkCenter({Shift(1, 22, 6), Shift(3, 0, 0)}, <<>>),
      WorkCenter({Shift(2, 9, 9)}, <<>>),
      WorkCenter(Daily(9, 17),
                 <<Window(At(1, 10, 0), At(1, 11, 1)), Window(At(1, 16, 1), At(3, 9, 0))>>),
      WorkCenter({Shift(0, 0, 1)}, <<>>),
      WorkCenter({}, <<>>) }

\* the instants of the first MaxDay days
Instants == 0..(MaxDay * MinutesPerDay)

\* the maintenance-window scenario on the double-shift center: order 001
\* (Tuesday 08:00-12:00, four hours), with or without its successor 002
\* (12:00-16:00) and the fixed maintenance order that occupies the window
MaintenanceScenarioOrder == WorkOrder("001", CenterName, At(2, 8, 0), Hours(4), FALSE, <<>>)

MaintenanceScenarioInputs ==
    LET successor == WorkOrder("002", CenterName, At(2, 12, 0), Hours(4), FALSE, <<"001">>)
        scheduled == WorkOrder("SCHEDULED", CenterName, At(2, 10, 0), Hours(3), TRUE, <<>>)
    IN { <<MaintenanceScenarioOrder>>,
         <<MaintenanceScenarioOrder, successor>>,
         <<MaintenanceScenarioOrder, scheduled>>,
         <<MaintenanceScenarioOrder, successor, scheduled>> }

\* the delay-cascade scenario on the office center: the chain 001 (Monday
\* 08:00-11:00), 002 (11:00-14:00), 003 (14:00-16:00), 004 (16:00-19:00) and
\* the independent order 005 (09:00-13:00), listed after or before the chain
CascadeChain ==
    << WorkOrder("001", CenterName, At(1, 8, 0), Hours(3), FALSE, <<>>),
       WorkOrder("002", CenterName, At(1, 11, 0), Hours(3), FALSE, <<"001">>),
       WorkOrder("003", CenterName, At(1, 14, 0), Hours(2), FALSE, <<"002">>),
       WorkOrder("004", CenterName, At(1, 16, 0), Hours(3), FALSE, <<"003">>) >>

CascadeDelay(m) == WorkOrder("005", CenterName, At(1, 9, 0), Hours(4), m, <<>>)

\* a single movable order on the office center whose original start lies
\* one or two hours before the shift and whose work takes longer than that
EarlyStartInputs ==
    { << WorkOrder("001", CenterName, At(1, h, 0), Hours(d), FALSE, <<>>) >> :
        h \in {6, 7}, d \in {1, 2, 4} }

CascadeScenarioInputs ==
    UNION { {CascadeChain \o <<CascadeDelay(m)>>, <<CascadeDelay(m)>> \o CascadeChain} :
            m \in BOOLEAN }

QueryDurations == {0, 1, 2, Hours(3), Hours(8)}

\* a call of a public ShiftCalculator method: its arguments, and its answer
\* as a boolean (isWorkingTime) or an instant (Thrown when it throws)
Query(method, dateTime, durationMinutes, working, instant) ==
    [method |-> method, dateTime |-> dateTime, durationMinutes |-> durationMinutes,
     working |-> working, instant |-> instant]

NoQuery == Query("none", Null, 0, FALSE, Null)

\* ------------------------------------------------------------------------
\* State
\* ------------------------------------------------------------------------
VARIABLES
    workCenter,       \* the work center of the invocation
    input,            \* the parsed work orders handed to the program
    pc,               \* position of the invocation
    entry,            \* "pipeline" (reflowFromFile) or "direct" (schedule called by a caller)
    group,            \* reflowFromFile: group.workOrders, the argument of topologicalSort
    inDegree,         \* topologicalSort: in-degree per work-order number
    queue,            \* topologicalSort: queue of work-order numbers
    sorted,           \* topologicalSort: result array
    workOrders,       \* schedule: its parameter
    scheduledStates,  \* schedule: Map of placed orders, in insertion order
    changes,          \* schedule: change records
    cursor,           \* schedule: position in the maintenance / regular loop
    result,           \* the ScheduleResult returned
    error,            \* the Error thrown
    query,            \* the call of a ShiftCalculator method answered last
    run               \* 1 for an invocation, 2 when its input is the output of one

vars == <<workCenter, input, pc, entry, group, inDegree, queue, sorted, workOrders,
          scheduledStates, changes, cursor, result, error, query, run>>

InitLocals ==
    /\ pc = "start"
    /\ entry = "none"
    /\ group = <<>>
    /\ inDegree = <<>>
    /\ queue = <<>>
    /\ sorted = <<>>
    /\ workOrders = <<>>
    /\ scheduledStates = <<>>
    /\ changes = <<>>
    /\ cursor = 0
    /\ result = NoResult
    /\ error = NoError
    /\ query = NoQuery
    /\ run = 1

Init ==
    /\ \/ workCenter \in Centers /\ input \in TimingInputs
       \/ workCenter \in DependencyCenters /\ input \in DependencyInputs
       \/ workCenter = DoubleShiftCenter /\ input \in MaintenanceScenarioInputs
       \/ workCenter = OfficeCenter /\ input \in CascadeScenarioInputs
       \/ workCenter = OfficeCenter /\ input \in EarlyStartInputs
    /\ InitLocals

\* ------------------------------------------------------------------------
\* reflowFromFile, step 2: groupByWorkCenter; an empty group is skipped
\* ------------------------------------------------------------------------
GroupByWorkCenter ==
    /\ pc = "start"
    /\ entry' = "pipeline"
    /\ group' = relevantWorkOrders(workCenter, input)
    /\ pc' = IF Len(group') = 0 THEN "skipped" ELSE "grouped"
    /\ UNCHANGED <<run, query, workCenter, input, inDegree, queue, sorted, workOrders,
                   scheduledStates, changes, cursor, result, error>>

\* a caller hands the parsed orders to ShiftCalendar itself, in the order given
CallScheduleDirectly ==
    /\ pc = "start"
    /\ entry' = "direct"
    /\ workOrders' = input
    /\ pc' = "ready"
    /\ UNCHANGED <<run, query, workCenter, input, group, inDegree, queue, sorted,
                   scheduledStates, changes, cursor, result, error>>

\* ------------------------------------------------------------------------
\* topologicalSort(group.workOrders)
\* ------------------------------------------------------------------------
TopologicalSortBegin ==
    /\ pc = "grouped"
    /\ IF Len(group) = 0
       THEN /\ pc' = "ready"
            /\ UNCHANGED <<inDegree, queue>>
       ELSE /\ pc' = "sorting"
            /\ inDegree' = initialInDegree(group)
            /\ queue' = initialQueue(group)
    /\ sorted' = <<>>
    /\ UNCHANGED <<run, query, workCenter, input, entry, group, workOrders, scheduledStates,
                   changes, cursor, result, error>>

TopologicalSortStep ==
    /\ pc = "sorting"
    /\ Len(queue) > 0
    /\ LET currentWoNumber == Head(queue)
           currentWo == getWorkOrder(group, currentWoNumber)
           dependents == adjacencyList(group, currentWoNumber, 1)
           relaxed == relaxDependents(dependents, 1, inDegree, Tail(queue))
       IN /\ sorted' = Append(sorted, currentWo)
          /\ inDegree' = relaxed.inDegree
          /\ queue' = relaxed.queue
    /\ UNCHANGED <<run, query, workCenter, input, pc, entry, group, workOrders, scheduledStates,
                   changes, cursor, result, error>>

\* the cycle check; on success the sorted array is passed to schedule
TopologicalSortEnd ==
    /\ pc = "sorting"
    /\ Len(queue) = 0
    /\ IF Len(sorted) # Len(group)
       THEN /\ pc' = "failed"
            /\ error' = MkError("cycle", unprocessedNumbers(group, sorted))
            /\ UNCHANGED workOrders
       ELSE /\ pc' = "ready"
            /\ workOrders' = sorted
            /\ UNCHANGED error
    /\ UNCHANGED <<run, query, workCenter, input, entry, group, inDegree, queue, sorted,
                   scheduledStates, changes, cursor, result>>

\* ------------------------------------------------------------------------
\* new ShiftCalendar(workCenter): the ShiftCalculator constructor
\* ------------------------------------------------------------------------
\* variant: the constructor accepts every work center
constructorAccepts(wc) == FALSE

\* the guard of the ShiftCalculator constructor
constructorThrows(wc) == wc.shifts = {}

NewShiftCalendar ==
    /\ pc = "ready"
    /\ IF constructorThrows(workCenter)
       THEN /\ pc' = "failed"
            /\ error' = MkError("no_shifts", <<workCenter.name>>)
       ELSE /\ pc' = "constructed"
            /\ UNCHANGED error
    /\ UNCHANGED <<run, query, workCenter, input, entry, group, inDegree, queue, sorted, workOrders,
                   scheduledStates, changes, cursor, result>>

\* ------------------------------------------------------------------------
\* ShiftCalendar.schedule(workOrders)
\* ------------------------------------------------------------------------
\* the loop schedule runs next when `done` maintenance orders are placed
phaseAfterMaintenance(orders, done) ==
    IF done < Len(maintenanceOrders(orders)) THEN "maintenance"
    ELSE IF Len(regularOrders(orders)) > 0 THEN "regular"
    ELSE "build"

phaseAfterRegular(orders, done) ==
    IF done < Len(regularOrders(orders)) THEN "regular" ELSE "build"

\* validateWorkOrders, then the split into maintenance and regular orders
ValidateWorkOrders ==
    /\ pc = "constructed"
    /\ LET invalid == invalidWorkOrders(workCenter, workOrders)
       IN IF Len(invalid) > 0
          THEN /\ pc' = "failed"
               /\ error' = MkError("foreign_order", Numbers(invalid))
               /\ UNCHANGED cursor
          ELSE /\ pc' = phaseAfterMaintenance(workOrders, 0)
               /\ cursor' = 1
               /\ UNCHANGED error
    /\ UNCHANGED <<run, query, workCenter, input, entry, group, inDegree, queue, sorted, workOrders,
                   scheduledStates, changes, result>>

\* variant: the start is stored as the end as well
maintenanceEntryStartOnly(wo) ==
    [key |-> wo.workOrderNumber, workOrder |-> wo,
     scheduledStartDate |-> wo.startDate, scheduledEndDate |-> wo.startDate]

\* one iteration of maintenanceOrders.forEach
maintenanceEntry(wo) ==
    [key |-> wo.workOrderNumber, workOrder |-> wo,
     scheduledStartDate |-> wo.startDate, scheduledEndDate |-> wo.endDate]

\* variant: the record is classified as a maintenance-window delay
maintenanceChangeClassified(wo) ==
    [workOrderNumber |-> wo.workOrderNumber,
     originalStartDate |-> wo.startDate, originalEndDate |-> wo.endDate,
     newStartDate |-> wo.startDate, newEndDate |-> wo.endDate,
     delayMinutes |-> 0,
     reason |-> Reason("maintenance", "", "", wo.startDate, wo.endDate)]

maintenanceChange(wo) ==
    [workOrderNumber |-> wo.workOrderNumber,
     originalStartDate |-> wo.startDate, originalEndDate |-> wo.endDate,
     newStartDate |-> wo.startDate, newEndDate |-> wo.endDate,
     delayMinutes |-> 0, reason |-> NoChange]

PlaceMaintenanceOrder ==
    /\ pc = "maintenance"
    /\ LET wo == maintenanceOrders(workOrders)[cursor]
       IN /\ scheduledStates' = mapSet(scheduledStates, maintenanceEntry(wo))
          /\ changes' = Append(changes, maintenanceChange(wo))
    /\ pc' = phaseAfterMaintenance(workOrders, cursor)
    /\ cursor' = IF pc' = "maintenance" THEN cursor + 1 ELSE 1
    /\ UNCHANGED <<run, query, workCenter, input, entry, group, inDegree, queue, sorted, workOrders,
                   result, error>>

\* variant: a failing placement returns the change records made so far
PlaceRegularOrderPartial ==
    /\ pc = "regular"
    /\ LET wo == regularOrders(workOrders)[cursor]
           placed == scheduleWorkOrder(workCenter, wo, scheduledStates, workOrders)
           scheduleState == [key |-> wo.workOrderNumber, workOrder |-> wo,
                             scheduledStartDate |-> placed.scheduledStartDate,
                             scheduledEndDate |-> placed.scheduledEndDate]
           states == mapSet(scheduledStates, scheduleState)
       IN IF placed.error # NoError
          THEN /\ pc' = "failed"
               /\ error' = placed.error
               /\ result' = [NoResult EXCEPT !.changes = changes]
               /\ UNCHANGED <<scheduledStates, changes, cursor>>
          ELSE /\ scheduledStates' = states
               /\ changes' = Append(changes,
                      createScheduleChange(workCenter, wo, scheduleState, states, workOrders))
               /\ pc' = phaseAfterRegular(workOrders, cursor)
               /\ cursor' = cursor + 1
               /\ UNCHANGED <<error, result>>
    /\ UNCHANGED <<run, query, workCenter, input, entry, group, inDegree, queue, sorted, workOrders>>

\* one iteration of regularOrders.forEach
PlaceRegularOrder ==
    /\ pc = "regular"
    /\ LET wo == regularOrders(workOrders)[cursor]
           placed == scheduleWorkOrder(workCenter, wo, scheduledStates, workOrders)
           scheduleState == [key |-> wo.workOrderNumber, workOrder |-> wo,
                             scheduledStartDate |-> placed.scheduledStartDate,
                             scheduledEndDate |-> placed.scheduledEndDate]
           states == mapSet(scheduledStates, scheduleState)
       IN IF placed.error # NoError
          THEN /\ pc' = "failed"
               /\ error' = placed.error
               /\ UNCHANGED <<scheduledStates, changes, cursor>>
          ELSE /\ scheduledStates' = states
               /\ changes' = Append(changes,
                      createScheduleChange(workCenter, wo, scheduleState, states, workOrders))
               /\ pc' = phaseAfterRegular(workOrders, cursor)
               /\ cursor' = cursor + 1
               /\ UNCHANGED error
    /\ UNCHANGED <<run, query, workCenter, input, entry, group, inDegree, queue, sorted, workOrders,
                   result>>

\* variant: the new start and end are written into the input records
BuildResultInPlace ==
    /\ pc = "build"
    /\ IF \E i \in 1..Len(workOrders) :
              ~mapHas(scheduledStates, workOrders[i].workOrderNumber)
       THEN /\ pc' = "failed"
            /\ error' = MkError("not_scheduled",
                   <<(CHOOSE n \in Range(Numbers(workOrders)) : ~mapHas(scheduledStates, n))>>)
            /\ UNCHANGED <<result, input>>
       ELSE /\ pc' = "done"
            /\ result' = [scheduledWorkOrders |-> scheduledWorkOrdersOf(workOrders, scheduledStates),
                          changes |-> changes,
                          summary |-> summaryOf(workOrders, changes)]
            /\ input' = result'.scheduledWorkOrders
            /\ UNCHANGED error
    /\ UNCHANGED <<run, query, workCenter, entry, group, inDegree, queue, sorted, workOrders,
                   scheduledStates, changes, cursor>>

\* scheduledWorkOrders, the summary and the return
BuildResult ==
    /\ pc = "build"
    /\ IF \E i \in 1..Len(workOrders) :
              ~mapHas(scheduledStates, workOrders[i].workOrderNumber)
       THEN /\ pc' = "failed"
            /\ error' = MkError("not_scheduled",
                   <<(CHOOSE n \in Range(Numbers(workOrders)) : ~mapHas(scheduledStates, n))>>)
            /\ UNCHANGED result
       ELSE /\ pc' = "done"
            /\ result' = [scheduledWorkOrders |-> scheduledWorkOrdersOf(workOrders, scheduledStates),
                          changes |-> changes,
                          summary |-> summaryOf(workOrders, changes)]
            /\ UNCHANGED error
    /\ UNCHANGED <<run, query, workCenter, input, entry, group, inDegree, queue, sorted, workOrders,
                   scheduledStates, changes, cursor>>

\* ------------------------------------------------------------------------
\* The caller hands result.scheduledWorkOrders (the orders with startDate and
\* endDate replaced, everything else kept) to the program again, with the
\* same work center; this is done once
\* ------------------------------------------------------------------------
ReflowAgain ==
    /\ pc = "done"
    /\ run = 1
    /\ run' = 2
    /\ input' = result.scheduledWorkOrders
    /\ pc' = "start"
    /\ entry' = "none"
    /\ group' = <<>>
    /\ inDegree' = <<>>
    /\ queue' = <<>>
    /\ sorted' = <<>>
    /\ workOrders' = <<>>
    /\ scheduledStates' = <<>>
    /\ changes' = <<>>
    /\ cursor' = 0
    /\ result' = NoResult
    /\ UNCHANGED <<workCenter, error, query>>

\* ------------------------------------------------------------------------
\* The ShiftCalculator on its own: a calculator is constructed for a work
\* center and one of its public methods is called with arbitrary arguments
\* (the calculator keeps no state between calls)
\* ------------------------------------------------------------------------
CalendarInit ==
    /\ workCenter \in CalendarCenters
    /\ input = <<>>
    /\ pc = "ready"
    /\ entry = "calculator"
    /\ group = <<>>
    /\ inDegree = <<>>
    /\ queue = <<>>
    /\ sorted = <<>>
    /\ workOrders = <<>>
    /\ scheduledStates = <<>>
    /\ changes = <<>>
    /\ cursor = 0
    /\ result = NoResult
    /\ error = NoError
    /\ query = NoQuery
    /\ run = 1

IsWorkingTime ==
    /\ pc = "constructed"
    /\ entry = "calculator"
    /\ \E dateTime \in Instants :
          query' = Query("isWorkingTime", dateTime, 0,
                         isWorkingTime(workCenter, dateTime), Null)
    /\ pc' = "answered"
    /\ UNCHANGED <<run, workCenter, input, entry, group, inDegree, queue, sorted, workOrders,
                   scheduledStates, changes, cursor, result, error>>

CalculateEndDate ==
    /\ pc = "constructed"
    /\ entry = "calculator"
    /\ \E startDate \in Instants : \E durationMinutes \in QueryDurations :
          query' = Query("calculateEndDate", startDate, durationMinutes, FALSE,
                         calculateEndDate(workCenter, startDate, durationMinutes))
    /\ pc' = "answered"
    /\ UNCHANGED <<run, workCenter, input, entry, group, inDegree, queue, sorted, workOrders,
                   scheduledStates, changes, cursor, result, error>>

GetNextValidStartTime ==
    /\ pc = "constructed"
    /\ entry = "calculator"
    /\ \E afterDate \in Instants :
          query' = Query("getNextValidStartTime", afterDate, 0, FALSE,
                         getNextValidStartTime(workCenter, afterDate))
    /\ pc' = "answered"
    /\ UNCHANGED <<run, workCenter, input, entry, group, inDegree, queue, sorted, workOrders,
                   scheduledStates, changes, cursor, result, error>>

CalendarNext ==
    \/ NewShiftCalendar
    \/ IsWorkingTime
    \/ CalculateEndDate
    \/ GetNextValidStartTime

CalendarSpec == CalendarInit /\ [][CalendarNext]_vars

Next ==
    \/ GroupByWorkCenter
    \/ CallScheduleDirectly
    \/ TopologicalSortBegin
    \/ TopologicalSortStep
    \/ TopologicalSortEnd
    \/ NewShiftCalendar
    \/ ValidateWorkOrders
    \/ PlaceMaintenanceOrder
    \/ PlaceRegularOrder
    \/ BuildResult
    \/ ReflowAgain

Spec == Init /\ [][Next]_vars

\* ------------------------------------------------------------------------
\* Vocabulary of the properties
\* ------------------------------------------------------------------------
Succeeded == pc = "done"

Placed == 1..Len(result.scheduledWorkOrders)

newStart(i) == result.scheduledWorkOrders[i].startDate
newEnd(i) == result.scheduledWorkOrders[i].endDate

Max(x, y) == IF x >= y THEN x ELSE y
Min(x, y) == IF x <= y THEN x ELSE y

\* [s1, e1) and [s2, e2) share no instant
Disjoint(s1, e1, s2, e2) == \A t \in Min(s1, s2)..Max(e1, e2) :
                                ~(s1 <= t /\ t < e1 /\ s2 <= t /\ t < e2)

\* positions in the schedule input of the predecessors of order i
PredecessorsOf(i) ==
    {p \in 1..Len(workOrders) :
        workOrders[p].workOrderNumber \in Range(workOrders[i].dependsOnWorkOrderIds)}

\* number of working minutes in [s, e)
WorkingMinutes(s, e) == Cardinality({t \in s..(e - 1) : isWorkingTime(workCenter, t)})

\* the change record of an order
changeOf(n) == changes[CHOOSE k \in 1..Len(changes) : changes[k].workOrderNumber = n]

\* ------------------------------------------------------------------------
\* C1: after a successful schedule, any two distinct placed orders of the
\* center have disjoint half-open intervals [new_start, new_end).  Stated
\* for the pairs with at least one movable order: two maintenance orders
\* that overlap in the input cannot be separated by any placement.
\* ------------------------------------------------------------------------
C1_IntervalsDisjoint ==
    Succeeded =>
        \A i \in Placed : \A j \in Placed :
            (i # j /\ ~(workOrders[i].isMaintenance /\ workOrders[j].isMaintenance)) =>
                Disjoint(newStart(i), newEnd(i), newStart(j), newEnd(j))

\* ------------------------------------------------------------------------
\* C2: after a successful schedule, every predecessor of every order W,
\* fixed or movable, ends no later than W starts.
\* ------------------------------------------------------------------------
C2_PredecessorsEndFirst ==
    Succeeded =>
        \A i \in Placed : \A p \in PredecessorsOf(i) : newEnd(p) <= newStart(i)

\* C2 as amended: every predecessor of every movable order W ends no later
\* than W starts, so W starts no earlier than the latest of those ends.
C2_MovablePredecessorsEndFirst ==
    Succeeded =>
        \A i \in Placed :
            ~workOrders[i].isMaintenance =>
                \A p \in PredecessorsOf(i) : newEnd(p) <= newStart(i)

\* a movable order with two distinct predecessors that was pushed past its
\* original start by the later of them
C2_Witness ==
    /\ Succeeded
    /\ \E i \in Placed :
          /\ ~workOrders[i].isMaintenance
          /\ Cardinality(PredecessorsOf(i)) = 2
          /\ \E p \in PredecessorsOf(i) : \E q \in PredecessorsOf(i) :
                /\ newEnd(p) < newEnd(q)
                /\ newEnd(q) > workOrders[i].startDate
                /\ newStart(i) >= newEnd(q)

\* ------------------------------------------------------------------------
\* C3: every maintenance order leaves the scheduler with its original start
\* and end, in the scheduled orders and in its change record.
\* ------------------------------------------------------------------------
C3_MaintenanceKeepsSchedule ==
    Succeeded =>
        \A i \in Placed :
            workOrders[i].isMaintenance =>
                /\ newStart(i) = workOrders[i].startDate
                /\ newEnd(i) = workOrders[i].endDate
                /\ changeOf(workOrders[i].workOrderNumber).newStartDate = workOrders[i].startDate
                /\ changeOf(workOrders[i].workOrderNumber).newEndDate = workOrders[i].endDate

\* a maintenance order that starts outside working time, has a predecessor
\* that ends after it starts, and is overlapped by another placed order
C3_Witness ==
    /\ Succeeded
    /\ \E i \in Placed :
          /\ workOrders[i].isMaintenance
          /\ workOrders[i].endDate > workOrders[i].startDate
          /\ ~isWorkingTime(workCenter, workOrders[i].startDate)
          /\ \E j \in Placed :
                /\ j # i
                /\ ~Disjoint(newStart(i), newEnd(i), newStart(j), newEnd(j))

\* ------------------------------------------------------------------------
\* C4: after a successful schedule the start of every order, fixed orders
\* included, is working time.
\* ------------------------------------------------------------------------
C4_StartIsWorkingTime ==
    Succeeded => \A i \in Placed : isWorkingTime(workCenter, newStart(i))

\* C4 as amended: the start of every movable order is working time.
C4_MovableStartIsWorkingTime ==
    Succeeded =>
        \A i \in Placed :
            ~workOrders[i].isMaintenance => isWorkingTime(workCenter, newStart(i))

\* a movable order whose original start is not working time and was moved
C4_Witness ==
    /\ Succeeded
    /\ \E i \in Placed :
          /\ ~workOrders[i].isMaintenance
          /\ ~isWorkingTime(workCenter, workOrders[i].startDate)
          /\ newStart(i) > workOrders[i].startDate

\* ------------------------------------------------------------------------
\* C5: after a successful schedule, for every order, fixed orders included,
\* exactly durationMinutes working minutes lie in [new_start, new_end) and
\* the minute just before new_end is a working minute.
\* ------------------------------------------------------------------------
EndsWork(i) ==
    /\ WorkingMinutes(newStart(i), newEnd(i)) = workOrders[i].durationMinutes
    /\ isWorkingTime(workCenter, newEnd(i) - 1)

C5_EndIsEndOfWork ==
    Succeeded => \A i \in Placed : EndsWork(i)

\* C5 as amended: the same for every movable order.
C5_MovableEndIsEndOfWork ==
    Succeeded => \A i \in Placed : ~workOrders[i].isMaintenance => EndsWork(i)

\* a movable order whose work is interrupted by non-working time
C5_Witness ==
    /\ Succeeded
    /\ \E i \in Placed :
          /\ ~workOrders[i].isMaintenance
          /\ newEnd(i) - newStart(i) > workOrders[i].durationMinutes

\* ------------------------------------------------------------------------
\* C6: the displacement of every movable order is non-negative.
\* ------------------------------------------------------------------------
C6_DisplacementNonNegative ==
    Succeeded =>
        \A i \in Placed :
            ~workOrders[i].isMaintenance =>
                /\ newStart(i) - workOrders[i].startDate >= 0
                /\ changeOf(workOrders[i].workOrderNumber).delayMinutes >= 0

\* a movable order all of whose predecessors end before its original start
C6_Witness ==
    /\ Succeeded
    /\ \E i \in Placed :
          /\ ~workOrders[i].isMaintenance
          /\ PredecessorsOf(i) # {}
          /\ \A p \in PredecessorsOf(i) : newEnd(p) < workOrders[i].startDate

\* ------------------------------------------------------------------------
\* Vocabulary of the dependency properties
\* ------------------------------------------------------------------------
\* topologicalSort has returned its array
SortReturned ==
    /\ entry = "pipeline"
    /\ \/ pc \in {"ready", "constructed", "maintenance", "regular", "build", "done"}
       \/ pc = "failed" /\ error.kind # "cycle"

\* topologicalSort has returned or thrown
SortFinished ==
    /\ entry = "pipeline"
    /\ pc \in {"ready", "constructed", "maintenance", "regular", "build", "done", "failed"}

depsOf(orders, n) == Range(getWorkOrder(orders, n).dependsOnWorkOrderIds)

\* the orders reached from a set of orders along predecessor edges
RECURSIVE Ancestors(_, _, _)
Ancestors(orders, reached, k) ==
    IF k = 0 THEN reached
    ELSE Ancestors(orders,
             reached \cup {d \in Range(Numbers(orders)) :
                              \E r \in reached \cap Range(Numbers(orders)) :
                                  d \in depsOf(orders, r)},
             k - 1)

OnCycle(orders, n) == n \in Ancestors(orders, depsOf(orders, n), Len(orders))

HasCycle(orders) == \E n \in Range(Numbers(orders)) : OnCycle(orders, n)

\* predecessor identifiers that name no order of the set
missingIds(orders) ==
    {d \in UNION {Range(orders[i].dependsOnWorkOrderIds) : i \in 1..Len(orders)} :
        d \notin Range(Numbers(orders))}

\* ------------------------------------------------------------------------
\* C7: when topologicalSort succeeds it returns a permutation of its input
\* in which every order comes after each order named in its dependency list.
\* ------------------------------------------------------------------------
C7_SortedIsLinearization ==
    SortReturned =>
        /\ Len(sorted) = Len(group)
        /\ \A i \in 1..Len(group) :
              Cardinality({k \in 1..Len(sorted) : sorted[k] = group[i]}) = 1
        /\ \A k \in 1..Len(sorted) :
              \A d \in Range(sorted[k].dependsOnWorkOrderIds) :
                  \E m \in 1..(k - 1) : sorted[m].workOrderNumber = d

\* a successful sort that had to reorder its input, with an order that has
\* two predecessors
C7_Witness ==
    /\ SortReturned
    /\ Len(sorted) = 3
    /\ sorted # group
    /\ \E k \in 1..Len(sorted) : Cardinality(Range(sorted[k].dependsOnWorkOrderIds)) = 2

\* ------------------------------------------------------------------------
\* C8: when the predecessor graph has a cycle (a self-dependency included),
\* linearization fails with the cycle error and returns no ordering; the
\* error lists exactly the orders left with non-zero in-degree, and every
\* order on a cycle is among them.
\* ------------------------------------------------------------------------
C8_CycleIsReported ==
    (SortFinished /\ HasCycle(group)) =>
        /\ pc = "failed"
        /\ error.kind = "cycle"
        /\ LET NonZero(n) == inDegree[n] # 0
           IN error.ids = SelectSeq(Numbers(group), NonZero)
        /\ \A n \in Range(Numbers(group)) : OnCycle(group, n) => n \in Range(error.ids)
        /\ workOrders = <<>>
        /\ result = NoResult

\* a cycle error that lists an order behind the cycle while another order
\* was sorted
C8_Witness ==
    /\ pc = "failed"
    /\ error.kind = "cycle"
    /\ HasCycle(group)
    /\ Len(sorted) > 0
    /\ \E n \in Range(error.ids) : ~OnCycle(group, n)

\* ------------------------------------------------------------------------
\* C9: when a predecessor identifier names no order of the invocation's
\* input set, the engine fails with a missing_predecessor error that names
\* the missing identifiers.
\* ------------------------------------------------------------------------
C9_MissingPredecessorReported ==
    (entry = "pipeline" /\ pc \in {"done", "failed"} /\ missingIds(group) # {}) =>
        /\ pc = "failed"
        /\ error.kind = "missing_predecessor"
        /\ missingIds(group) \subseteq Range(error.ids)

\* ------------------------------------------------------------------------
\* C10: schedule fails with the foreign-order error that lists every order
\* whose workCenterId differs from the center's name, before any order is
\* placed or any change record is made.
\* ------------------------------------------------------------------------
\* schedule has been entered and has run its validation
ScheduleEntered ==
    \/ pc \in {"maintenance", "regular", "build", "done"}
    \/ pc = "failed" /\ error.kind \notin {"cycle", "no_shifts"}

Offenders == {i \in 1..Len(workOrders) : workOrders[i].workCenterId # workCenter.name}

C10_ForeignOrderRejected ==
    (ScheduleEntered /\ Offenders # {}) =>
        /\ pc = "failed"
        /\ error.kind = "foreign_order"
        /\ Len(error.ids) = Cardinality(Offenders)
        /\ Range(error.ids) = {workOrders[i].workOrderNumber : i \in Offenders}
        /\ scheduledStates = <<>>
        /\ changes = <<>>
        /\ result = NoResult

\* the foreign-order error for an input with two foreign orders and one
\* order of this center
C10_Witness ==
    /\ pc = "failed"
    /\ error.kind = "foreign_order"
    /\ Cardinality(Offenders) = 2
    /\ Len(workOrders) = 3

\* ------------------------------------------------------------------------
\* C11: a work center with zero shifts cannot be instantiated: constructing
\* the calendar for it fails with the no-shifts error, so the invocation
\* never gets past the constructor: nothing is validated, placed or
\* returned for such a center.  (In the pipeline topologicalSort runs before
\* the constructor, so a cycle may be reported first.)
\* ------------------------------------------------------------------------
BeforeCalendar == {"start", "grouped", "skipped", "sorting", "ready"}

C11_NoShiftsNoCalendar ==
    workCenter.shifts = {} =>
        /\ pc \in BeforeCalendar \cup {"failed"}
        /\ pc = "failed" =>
              \/ error = MkError("no_shifts", <<workCenter.name>>)
              \/ entry = "pipeline" /\ error.kind = "cycle"
        /\ scheduledStates = <<>>
        /\ changes = <<>>
        /\ result = NoResult

C11_Witness ==
    /\ workCenter.shifts = {}
    /\ Len(workOrders) > 0
    /\ pc = "failed"
    /\ error = MkError("no_shifts", <<workCenter.name>>)

\* ------------------------------------------------------------------------
\* Vocabulary of the calendar properties, stated on the instant itself
\* ------------------------------------------------------------------------
Asked(method) == query.method = method

\* minute of the day and weekday (0 = Sunday) of an instant
tod(t) == t % MinutesPerDay
dayOf(t) == (t \div MinutesPerDay) % DaysPerWeek

\* a shift that does not span midnight admits [start, end) of its weekday
AdmitsPlain(sh, t) ==
    /\ dayOf(t) = sh.dayOfWeek
    /\ sh.startHour * MinutesPerHour <= tod(t)
    /\ tod(t) < sh.endHour * MinutesPerHour

\* a shift that spans midnight admits its weekday from the start hour on and
\* the following weekday before the end hour
AdmitsSpanning(sh, t) ==
    \/ dayOf(t) = sh.dayOfWeek /\ tod(t) >= sh.startHour * MinutesPerHour
    \/ /\ dayOf(t) = (IF sh.dayOfWeek = 6 THEN 0 ELSE sh.dayOfWeek + 1)
       /\ tod(t) < sh.endHour * MinutesPerHour

Admits(sh, t) ==
    IF sh.endHour <= sh.startHour THEN AdmitsSpanning(sh, t) ELSE AdmitsPlain(sh, t)

Blocks(window, t) == window.startDate <= t /\ t <= window.endDate

Blocked(t) ==
    \E i \in 1..Len(workCenter.maintenanceWindows) : Blocks(workCenter.maintenanceWindows[i], t)

\* ------------------------------------------------------------------------
\* C12: is_working(T) is true iff T lies within some shift of the center
\* and outside every maintenance window; a shift that does not span
\* midnight admits start*60 <= tod < end*60, and a window blocks both of
\* its endpoints.
\* ------------------------------------------------------------------------
C12_IsWorkingDefinition ==
    Asked("isWorkingTime") =>
        (query.working <=>
            /\ \E sh \in workCenter.shifts : Admits(sh, query.dateTime)
            /\ ~Blocked(query.dateTime))

\* the end of a window that lies within a shift is asked for, and is blocked
C12_Witness ==
    /\ Asked("isWorkingTime")
    /\ ~query.working
    /\ \E sh \in workCenter.shifts : AdmitsPlain(sh, query.dateTime)
    /\ \E i \in 1..Len(workCenter.maintenanceWindows) :
          query.dateTime = workCenter.maintenanceWindows[i].endDate

\* ------------------------------------------------------------------------
\* C13: a shift with endHour <= startHour spans midnight: it admits the
\* instants of its own weekday with tod >= start*60 and those of the
\* following weekday (Sunday after Saturday) with tod < end*60, and no
\* others.  Stated on centers all of whose shifts span midnight and that
\* have no maintenance window, where is_working is the admission itself.
\* ------------------------------------------------------------------------
OnlySpanningShifts ==
    /\ workCenter.maintenanceWindows = <<>>
    /\ \A sh \in workCenter.shifts : sh.endHour <= sh.startHour

C13_SpanningShiftAdmission ==
    (Asked("isWorkingTime") /\ OnlySpanningShifts) =>
        (query.working <=>
            \E sh \in workCenter.shifts : AdmitsSpanning(sh, query.dateTime))

\* a Sunday instant in the tail of a Saturday night shift is admitted
C13_Witness ==
    /\ Asked("isWorkingTime")
    /\ OnlySpanningShifts
    /\ query.working
    /\ dayOf(query.dateTime) = 0
    /\ \E sh \in workCenter.shifts : sh.dayOfWeek = 6 /\ sh.endHour > 0

\* is_working, stated on the instant itself
Working(t) == (\E sh \in workCenter.shifts : Admits(sh, t)) /\ ~Blocked(t)

\* ------------------------------------------------------------------------
\* C14: next_working(T) returns the smallest instant T' >= T for which
\* is_working(T') is true, for every T, also when the minute-of-hour of T
\* is not zero (whenever the thirty days after T hold a working instant).
\* ------------------------------------------------------------------------
C14_NextWorkingIsSmallest ==
    (/\ Asked("getNextValidStartTime")
     /\ \E t \in query.dateTime..(query.dateTime + MaxSearchDays * MinutesPerDay - 1) :
            Working(t)) =>
        /\ query.instant # Thrown
        /\ query.instant >= query.dateTime
        /\ Working(query.instant)
        /\ \A t \in query.dateTime..(query.instant - 1) : ~Working(t)

\* number of working minutes in [s, e), counted on the instants themselves
WorkingCount(s, e) == Cardinality({t \in s..(e - 1) : Working(t)})

\* a call of calculateEndDate with a positive duration
AskedEndOfWork == Asked("calculateEndDate") /\ query.durationMinutes > 0

\* ------------------------------------------------------------------------
\* C15: end_of_work(T, D) for D > 0 is the instant at which the D-th
\* working minute counted from T completes: exactly D working minutes lie
\* in [T, result), the last of them being the minute before the result, and
\* the minutes of non-working gaps are not counted.  On shifts 08:00-12:00
\* and 13:00-17:00 an order starting 11:00 with three hours of work ends at
\* 15:00.
\* ------------------------------------------------------------------------
C15_EndOfWorkCountsWorkingMinutes ==
    (AskedEndOfWork /\ query.instant # Thrown) =>
        /\ query.instant > query.dateTime
        /\ WorkingCount(query.dateTime, query.instant) = query.durationMinutes
        /\ Working(query.instant - 1)
        /\ (/\ workCenter = LunchCenter
            /\ query.dateTime = At(1, 11, 0)
            /\ query.durationMinutes = Hours(3)) => query.instant = At(1, 15, 0)

\* the documented call is made and the lunch break is skipped
C15_Witness ==
    /\ AskedEndOfWork
    /\ workCenter = LunchCenter
    /\ query.dateTime = At(1, 11, 0)
    /\ query.durationMinutes = Hours(3)
    /\ query.instant = At(1, 15, 0)
    /\ ~Working(At(1, 12, 0))

\* ------------------------------------------------------------------------
\* C16: end_of_work always terminates: its loop ends within MAX_ITERATIONS
\* one-minute steps; it returns normally iff the D-th working minute lies
\* within the MAX_ITERATIONS wall-clock minutes after T, and otherwise fails
\* with the infinite-loop protection error.  The cap counts elapsed minutes,
\* not working minutes.
\* ------------------------------------------------------------------------
EndOfWorkLoop ==
    calculateEndDateLoop(workCenter,
        [currentTime |-> query.dateTime, remainingMinutes |-> query.durationMinutes,
         iterationCount |-> 0, thrown |-> FALSE],
        MAX_ITERATIONS + 1)

C16_EndOfWorkTerminates ==
    AskedEndOfWork =>
        /\ EndOfWorkLoop.thrown \/ EndOfWorkLoop.remainingMinutes = 0
        /\ EndOfWorkLoop.iterationCount <= MAX_ITERATIONS
        /\ EndOfWorkLoop.currentTime = query.dateTime + EndOfWorkLoop.iterationCount
        /\ query.instant # Thrown <=>
               WorkingCount(query.dateTime, query.dateTime + MAX_ITERATIONS)
                   >= query.durationMinutes
        /\ query.instant # Thrown => query.instant - query.dateTime <= MAX_ITERATIONS

\* the call fails although some, but not enough, working minutes were counted
C16_Witness ==
    /\ AskedEndOfWork
    /\ query.instant = Thrown
    /\ WorkingCount(query.dateTime, query.dateTime + MAX_ITERATIONS) > 0

\* ------------------------------------------------------------------------
\* C17: weekend spanning: on a center whose only shifts are Friday
\* 08:00-17:00 and Monday 08:00-17:00, an order starting Friday 16:00 with
\* eight hours of work completes on the following Monday at 16:00.
\* ------------------------------------------------------------------------
AskedWeekendSpan ==
    /\ AskedEndOfWork
    /\ workCenter = WeekendCenter
    /\ query.dateTime = At(5, 16, 0)
    /\ query.durationMinutes = Hours(8)

C17_WeekendSpanEndsMonday16 ==
    AskedWeekendSpan => query.instant = At(DaysPerWeek + 1, 16, 0)

\* C17 as amended: the order completes on the following Monday at 15:00
\* (one hour of work on Friday, seven hours from Monday 08:00).
C17_WeekendSpanEndsMonday15 ==
    AskedWeekendSpan => query.instant = At(DaysPerWeek + 1, 15, 0)

C17_Witness ==
    /\ AskedWeekendSpan
    /\ query.instant # Thrown
    /\ WorkingCount(At(5, 16, 0), At(6, 0, 0)) = Hours(1)
    /\ WorkingCount(At(6, 0, 0), query.instant) = Hours(7)

\* ------------------------------------------------------------------------
\* C18: maintenance-window scenario: on the center with shifts 06:00-14:00
\* and 14:00-22:00 and the maintenance window [Tuesday 10:00, Tuesday 13:00]
\* the movable order 001 without predecessors (08:00-12:00, four hours) is
\* displaced to start at 13:00, and its change record carries the
\* maintenance reason naming that window.
\* ------------------------------------------------------------------------
C18_DisplacedPastWindow ==
    (/\ Succeeded
     /\ workCenter = DoubleShiftCenter
     /\ input \in MaintenanceScenarioInputs) =>
        /\ changeOf("001").newStartDate = At(2, 13, 0)
        /\ changeOf("001").reason =
               Reason("maintenance", "", "", At(2, 10, 0), At(2, 13, 0))

\* ------------------------------------------------------------------------
\* C19: delay-cascade scenario: on the Monday-to-Friday 08:00-17:00 center
\* with the chain 001, 002, 003, 004 and the independent movable order 005
\* (09:00-13:00), 005 keeps 09:00-13:00, 001 is displaced to 13:00-16:00
\* with a work-center-conflict reason naming 005, and each of 002, 003, 004
\* is displaced with a dependency reason.
\* ------------------------------------------------------------------------
C19_DelayCascade ==
    (/\ Succeeded
     /\ workCenter = OfficeCenter
     /\ input \in {CascadeChain \o <<CascadeDelay(FALSE)>>,
                   <<CascadeDelay(FALSE)>> \o CascadeChain}) =>
        /\ changeOf("005").newStartDate = At(1, 9, 0)
        /\ changeOf("005").newEndDate = At(1, 13, 0)
        /\ changeOf("001").newStartDate = At(1, 13, 0)
        /\ changeOf("001").newEndDate = At(1, 16, 0)
        /\ changeOf("001").reason.type = "work_center_conflict"
        /\ changeOf("001").reason.number = "005"
        /\ \A n \in {"002", "003", "004"} :
              /\ changeOf(n).delayMinutes > 0
              /\ changeOf(n).reason.type = "dependency"

\* ------------------------------------------------------------------------
\* C20: whenever a movable order is displaced and one of its predecessors
\* has a scheduled end strictly after the order's original start, the
\* order's change record carries the dependency reason and names the
\* predecessor with the latest scheduled end, whatever other orders or
\* maintenance windows its original interval meets.
\* ------------------------------------------------------------------------
PlacedPredecessors(wo) ==
    {i \in 1..Len(scheduledStates) :
        scheduledStates[i].key \in Range(wo.dependsOnWorkOrderIds)}

LatestPredecessors(wo) ==
    {scheduledStates[i].key : i \in
        {i \in PlacedPredecessors(wo) :
            \A k \in PlacedPredecessors(wo) :
                scheduledStates[k].scheduledEndDate <= scheduledStates[i].scheduledEndDate}}

C20_PredecessorReason ==
    Succeeded =>
        \A k \in 1..Len(changes) :
            LET wo == getWorkOrder(workOrders, changes[k].workOrderNumber)
            IN (/\ ~wo.isMaintenance
                /\ changes[k].newStartDate # wo.startDate
                /\ \E i \in PlacedPredecessors(wo) :
                       scheduledStates[i].scheduledEndDate > wo.startDate) =>
                   /\ changes[k].reason.type = "dependency"
                   /\ changes[k].reason.number \in LatestPredecessors(wo)

\* position of an order in the table of placed orders (its placement rank)
placementRank(n) == CHOOSE i \in 1..Len(scheduledStates) : scheduledStates[i].key = n

\* ------------------------------------------------------------------------
\* C21: a change record with the work-center-conflict reason names a
\* different order, one that was placed before the classified order and
\* whose scheduled interval overlaps the classified order's original
\* interval; an order is never reported as being blocked by itself.
\* ------------------------------------------------------------------------
C21_ConflictNamesEarlierOrder ==
    Succeeded =>
        \A k \in 1..Len(changes) :
            changes[k].reason.type = "work_center_conflict" =>
                LET blocker == changes[k].reason.number
                    own == changes[k].workOrderNumber
                IN /\ blocker # own
                   /\ mapHas(scheduledStates, blocker)
                   /\ placementRank(blocker) < placementRank(own)
                   /\ hasTimeOverlap(changes[k].originalStartDate,
                                     changes[k].originalEndDate,
                                     mapGet(scheduledStates, blocker).scheduledStartDate,
                                     mapGet(scheduledStates, blocker).scheduledEndDate)

\* the change records of the movable orders
MovableChanges ==
    {k \in 1..Len(changes) :
        ~getWorkOrder(workOrders, changes[k].workOrderNumber).isMaintenance}

\* ------------------------------------------------------------------------
\* C22: the change record of a movable order has the reason no_change only
\* when its scheduled start equals its original start and its scheduled end
\* equals its original end; when the start is kept but the end differs, the
\* reason is one of the classified ones.
\* ------------------------------------------------------------------------
C22_NoChangeMeansSameInterval ==
    Succeeded =>
        \A k \in MovableChanges :
            changes[k].reason.type = "no_change" =>
                /\ changes[k].newStartDate = changes[k].originalStartDate
                /\ changes[k].newEndDate = changes[k].originalEndDate

\* the change records of the fixed (maintenance) orders
FixedChanges == (1..Len(changes)) \ MovableChanges

FixedRecordKeepsOriginal(k) ==
    /\ changes[k].delayMinutes = 0
    /\ changes[k].newStartDate = changes[k].originalStartDate
    /\ changes[k].newEndDate = changes[k].originalEndDate
    /\ changes[k].originalStartDate =
           getWorkOrder(workOrders, changes[k].workOrderNumber).startDate
    /\ changes[k].originalEndDate =
           getWorkOrder(workOrders, changes[k].workOrderNumber).endDate

\* ------------------------------------------------------------------------
\* C23: every fixed (maintenance) order gets a change record whose reason
\* tag is fixed_maintenance, distinct from no_change, with zero
\* displacement and new start and end equal to the originals.
\* ------------------------------------------------------------------------
C23_FixedMaintenanceTag ==
    Succeeded =>
        \A i \in 1..Len(workOrders) :
            workOrders[i].isMaintenance =>
                \E k \in FixedChanges :
                    /\ changes[k].workOrderNumber = workOrders[i].workOrderNumber
                    /\ changes[k].reason.type = "fixed_maintenance"
                    /\ FixedRecordKeepsOriginal(k)

\* C23 as amended: every fixed order gets exactly one change record, with
\* the reason tag no_change (the tag of an unmoved movable order), zero
\* displacement and new start and end equal to the originals.
C23_FixedOrderIsNoChange ==
    Succeeded =>
        \A i \in 1..Len(workOrders) :
            workOrders[i].isMaintenance =>
                /\ Cardinality({k \in 1..Len(changes) :
                       changes[k].workOrderNumber = workOrders[i].workOrderNumber}) = 1
                /\ \E k \in FixedChanges :
                       /\ changes[k].workOrderNumber = workOrders[i].workOrderNumber
                       /\ changes[k].reason = NoChange
                       /\ FixedRecordKeepsOriginal(k)

\* a fixed order outside working time, next to a movable order it displaced
C23_Witness ==
    /\ Succeeded
    /\ \E k \in FixedChanges :
          /\ changes[k].reason = NoChange
          /\ ~isWorkingTime(workCenter, changes[k].newStartDate)
    /\ \E k \in MovableChanges :
          /\ changes[k].delayMinutes > 0
          /\ changes[k].reason.type = "work_center_conflict"

\* the orders of the invocation in their original input order: the group of
\* the center in the pipeline, the array given by a direct caller
OriginalOrder == IF entry = "pipeline" THEN Numbers(group) ELSE Numbers(input)

ChangedNumbers(changeList) == [k \in 1..Len(changeList) |-> changeList[k].workOrderNumber]

\* ------------------------------------------------------------------------
\* C24: in the assembled result the scheduled-orders list and the
\* change-record list both contain every input order exactly once and list
\* the orders in the invocation's original input order.
\* ------------------------------------------------------------------------
C24_ResultInInputOrder ==
    Succeeded =>
        /\ Numbers(result.scheduledWorkOrders) = OriginalOrder
        /\ ChangedNumbers(result.changes) = OriginalOrder

\* C24 as amended: both lists contain every input order exactly once; the
\* scheduled-orders list is in the order of the array handed to schedule
\* (the linearization in the pipeline), and the change records list the
\* fixed orders first and then the movable orders, each in that order.
C24_ResultInScheduleOrder ==
    Succeeded =>
        /\ Numbers(result.scheduledWorkOrders) = Numbers(workOrders)
        /\ ChangedNumbers(result.changes) =
               Numbers(maintenanceOrders(workOrders)) \o Numbers(regularOrders(workOrders))
        /\ Len(result.scheduledWorkOrders) = Len(OriginalOrder)
        /\ Len(result.changes) = Len(OriginalOrder)
        /\ Range(Numbers(result.scheduledWorkOrders)) = Range(OriginalOrder)
        /\ Range(ChangedNumbers(result.changes)) = Range(OriginalOrder)

\* the linearization differs from the input order and a fixed order that is
\* not first in it heads the change records
C24_Witness ==
    /\ Succeeded
    /\ entry = "pipeline"
    /\ Numbers(workOrders) # OriginalOrder
    /\ ChangedNumbers(result.changes) # Numbers(workOrders)
    /\ ChangedNumbers(result.changes) # OriginalOrder

\* the second invocation: its input is the list of scheduled orders of a
\* successful invocation on the same work center
Rescheduled == run = 2

\* the input order with this number
InputOrder(n) == input[CHOOSE i \in 1..Len(input) : input[i].workOrderNumber = n]

\* C25: when the scheduled orders of a successful invocation are scheduled
\* again on the same work center, every order keeps its start and its end
\* and every change record has the reason no_change.
C25_Idempotent ==
    (Succeeded /\ Rescheduled) =>
        /\ \A i \in Placed :
              LET wo == result.scheduledWorkOrders[i]
              IN /\ wo.startDate = InputOrder(wo.workOrderNumber).startDate
                 /\ wo.endDate = InputOrder(wo.workOrderNumber).endDate
        /\ \A k \in 1..Len(result.changes) : result.changes[k].reason = NoChange

\* positions reached from the positions in `set` by following predecessor
\* references at most n more times
RECURSIVE PredecessorClosure(_, _)
PredecessorClosure(set, n) ==
    IF n = 0 THEN set
    ELSE PredecessorClosure(set \cup UNION {PredecessorsOf(p) : p \in set}, n - 1)

\* positions of the direct and transitive predecessors of order i
TransitivePredecessorsOf(i) == PredecessorClosure(PredecessorsOf(i), Len(workOrders))

\* the original intervals of the orders at positions i and j share an instant
OriginalsOverlap(i, j) ==
    ~Disjoint(workOrders[i].startDate, workOrders[i].endDate,
              workOrders[j].startDate, workOrders[j].endDate)

\* C26: for two movable orders A before B in the array schedule works
\* through, if their original intervals overlap or A is a direct or
\* transitive predecessor of B, A's scheduled end is not after B's
\* scheduled start.
C26_EarlierOrderEndsFirst ==
    Succeeded =>
        \A a \in Placed : \A b \in Placed :
            (/\ a < b
             /\ ~workOrders[a].isMaintenance
             /\ ~workOrders[b].isMaintenance
             /\ (OriginalsOverlap(a, b) \/ a \in TransitivePredecessorsOf(b))) =>
                newEnd(a) <= newStart(b)

\* the invocation has thrown
Failed == pc = "failed"

\* the kinds of failure the program reports
FailureKinds ==
    {"foreign_order", "cycle", "missing_predecessor", "dependency_not_scheduled",
     "no_valid_working_time", "infinite_loop_protection", "no_shifts", "not_scheduled"}

HoldsInputRecords ==
    /\ Range(group) \subseteq Range(input)
    /\ Range(sorted) \subseteq Range(input)
    /\ Range(workOrders) \subseteq Range(input)
    /\ \A k \in 1..Len(scheduledStates) : scheduledStates[k].workOrder \in Range(input)

\* C28: the scheduler never changes its inputs: during an invocation, up to
\* its return or its failure, the input work-order records (start, end,
\* duration, predecessors) and the work-center record stay as they were
\* handed in; the new start and end exist only in the result records.
C28_InputsNeverMutated ==
    /\ []HoldsInputRecords
    /\ [][run' = run => (input' = input /\ workCenter' = workCenter)]_vars

\* a schedule has returned an order with a new start while the input
\* record of that order still carries another start
C28_Witness ==
    /\ Succeeded
    /\ run = 1
    /\ \E i \in Placed :
          /\ workOrders[i] \in Range(input)
          /\ newStart(i) # workOrders[i].startDate
          /\ newEnd(i) # workOrders[i].endDate

\* C29: at every point of the placement, the interval given to a movable
\* order after the snap to working time does not overlap the interval of
\* any order placed before it, fixed or movable.
C29_SnappedIntervalIsFree ==
    \A k \in 1..Len(scheduledStates) : \A j \in 1..(k - 1) :
        ~scheduledStates[k].workOrder.isMaintenance =>
            Disjoint(scheduledStates[j].scheduledStartDate, scheduledStates[j].scheduledEndDate,
                     scheduledStates[k].scheduledStartDate, scheduledStates[k].scheduledEndDate)

\* the floor of the placed order at position k of scheduledStates: its
\* original start or the latest end of its predecessors, whichever is later
floorOf(k) ==
    LET wo == scheduledStates[k].workOrder
        ends == {scheduledStates[i].scheduledEndDate : i \in PlacedPredecessors(wo)}
    IN Max(wo.startDate, IF ends = {} THEN 0 ELSE CHOOSE e \in ends : \A x \in ends : x <= e)

\* starting the work of the order at position k at instant t is feasible:
\* t is working time and [t, end_of_work(t, D)) overlaps no order placed before
Feasible(k, t) ==
    LET end == calculateEndDate(workCenter, t, scheduledStates[k].workOrder.durationMinutes)
    IN /\ isWorkingTime(workCenter, t)
       /\ end # Thrown
       /\ \A j \in 1..(k - 1) :
             Disjoint(t, end, scheduledStates[j].scheduledStartDate,
                      scheduledStates[j].scheduledEndDate)

\* C30: every movable order is placed at the earliest feasible start: no
\* instant from its floor up to just before its new start is working time
\* with room for the order's work clear of all orders placed before it.
C30_EarliestFeasibleStart ==
    \A k \in 1..Len(scheduledStates) :
        ~scheduledStates[k].workOrder.isMaintenance =>
            \A t \in floorOf(k)..(scheduledStates[k].scheduledStartDate - 1) : ~Feasible(k, t)

\* the keys of the placed-orders table, in insertion order
PlacedKeys == [k \in 1..Len(scheduledStates) |-> scheduledStates[k].key]

\* the order of commitment: the fixed orders of the array handed to
\* schedule in array order, then its movable orders in array order
CommitOrder ==
    Numbers(maintenanceOrders(workOrders)) \o Numbers(regularOrders(workOrders))

\* a step of one invocation keeps every entry of the placed-orders table
KeepsPlacedEntries ==
    run' = run =>
        /\ Len(scheduledStates') >= Len(scheduledStates)
        /\ \A k \in 1..Len(scheduledStates) : scheduledStates'[k] = scheduledStates[k]

\* C31: an interval committed to the placed-orders table is never changed
\* or removed during the invocation, whatever is placed later, and the
\* orders are committed fixed orders first, then movable orders in the
\* order of the linearization.
C31_PlacedIntervalsImmutable ==
    /\ [][KeepsPlacedEntries]_vars
    /\ [](PlacedKeys = SubSeq(CommitOrder, 1, Len(scheduledStates)))

\* a movable order has been committed after a fixed order that follows it
\* in the array, and a further movable order after both
C31_Witness ==
    /\ Len(scheduledStates) >= 3
    /\ scheduledStates[1].workOrder.isMaintenance
    /\ ~scheduledStates[2].workOrder.isMaintenance
    /\ ~workOrders[1].isMaintenance
    /\ scheduledStates[2].scheduledStartDate # scheduledStates[2].workOrder.startDate

\* the movable order the regular loop places next
NextOrder == regularOrders(workOrders)[cursor]

NextDependencyEnd ==
    IF Len(NextOrder.dependsOnWorkOrderIds) > 0
    THEN getLatestDependencyEndTime(NextOrder, scheduledStates, workOrders)
    ELSE [error |-> NoError, value |-> Null, owner |-> ""]

\* the regular loop is about to place an order whose predecessors are placed
AtConflictCheck == pc = "regular" /\ NextDependencyEnd.error = NoError

\* the start proposed to the conflict check and the floor it returns
ProposedStart == startAfterDependencies(NextOrder, NextDependencyEnd.value)

ConflictFloor ==
    getEarliestNonConflictingTime(workCenter, ProposedStart, NextOrder.durationMinutes,
                                  scheduledStates)

\* [s, e) and the placed interval at position k overlap under the strict rule
StrictlyOverlaps(s, e, k) ==
    s < scheduledStates[k].scheduledEndDate /\ e > scheduledStates[k].scheduledStartDate

PlacedEntries == 1..Len(scheduledStates)

\* C32: the floor returned by the conflict check is the proposed start or
\* the scheduled end of a placed order, is never before the proposed start,
\* and [Fc, end_of_work(Fc, D)) overlaps no placed order, where overlap means
\* Fc < Q.end and E > Q.start; an interval that only touches a placed order
\* at an endpoint is accepted, so a proposed start whose interval strictly
\* overlaps nothing is returned as it is.
C32_ConflictFloor ==
    (AtConflictCheck /\ ConflictFloor # Thrown) =>
        LET D == NextOrder.durationMinutes
            Fc == ConflictFloor
        IN /\ Fc = ProposedStart \/ \E k \in PlacedEntries : Fc = scheduledStates[k].scheduledEndDate
           /\ Fc >= ProposedStart
           /\ \A k \in PlacedEntries :
                 ~StrictlyOverlaps(Fc, calculateEndDate(workCenter, Fc, D), k)
           /\ (\A k \in PlacedEntries :
                  ~StrictlyOverlaps(ProposedStart,
                                    calculateEndDate(workCenter, ProposedStart, D), k))
                 => Fc = ProposedStart

\* the proposed interval overlaps a placed order and the floor returned is
\* the end of a placed order, which the accepted interval touches
C32_Witness ==
    /\ AtConflictCheck
    /\ ConflictFloor # Thrown
    /\ ConflictFloor # ProposedStart
    /\ \E k \in PlacedEntries : ConflictFloor = scheduledStates[k].scheduledEndDate

\* the loop record of the conflict check for the next order after n passes
RECURSIVE ConflictLoopAfter(_)
ConflictLoopAfter(n) ==
    IF n = 0
    THEN [currentStart |-> ProposedStart, hasConflict |-> TRUE, thrown |-> FALSE]
    ELSE getEarliestNonConflictingTimeStep(workCenter, ConflictLoopAfter(n - 1),
                                           NextOrder.durationMinutes, scheduledStates)

\* the loop has been left after n passes, by a result or by a throw
ConflictLoopLeft(n) == ConflictLoopAfter(n).thrown \/ ~ConflictLoopAfter(n).hasConflict

\* pass n + 1 found an overlap and moved the candidate
FoundOverlap(n) == ~ConflictLoopLeft(n) /\ ~ConflictLoopLeft(n + 1)

\* C33: the conflict loop terminates for every placed-orders table: a pass
\* that finds an overlap moves the candidate start strictly forward, and
\* after one pass per placed order plus one the loop has been left (with a
\* floor, or because end_of_work failed).
C33_ConflictLoopTerminates ==
    AtConflictCheck =>
        /\ \A n \in 0..Len(scheduledStates) :
              FoundOverlap(n) =>
                  ConflictLoopAfter(n + 1).currentStart > ConflictLoopAfter(n).currentStart
        /\ ConflictLoopLeft(Len(scheduledStates) + 1)

\* two passes in a row find an overlap and the third returns a floor
C33_Witness ==
    /\ AtConflictCheck
    /\ FoundOverlap(0)
    /\ FoundOverlap(1)
    /\ ~ConflictLoopAfter(3).hasConflict
    /\ ~ConflictLoopAfter(3).thrown

\* the instants a search from T examines: T, T + 1h, T + 2h, ... strictly
\* before T + 30 days
SearchGrid(T) == {T + k * MinutesPerHour : k \in 0..(MaxSearchDays * HoursPerDay - 1)}

\* C34: next_working(T) looks only at T, T + 1h, T + 2h, ... strictly before
\* T + 30 days; it returns the first of these that is working time, which
\* has T's minute of the hour, and it fails (no working time) exactly when
\* none of them is working time.
C34_HourlySearch ==
    Asked("getNextValidStartTime") =>
        LET T == query.dateTime
            hits == {g \in SearchGrid(T) : Working(g)}
        IN IF hits = {}
           THEN query.instant = Thrown
           ELSE /\ query.instant \in hits
                /\ \A g \in hits : query.instant <= g
                /\ (query.instant - T) % MinutesPerHour = 0

\* the search fails although an instant between two examined ones is
\* working time within the thirty days
C34_Witness ==
    /\ Asked("getNextValidStartTime")
    /\ query.instant = Thrown
    /\ \E t \in query.dateTime..(query.dateTime + MaxSearchDays * MinutesPerDay - 1) :
          Working(t)

\* the numbers of the orders without predecessors, in the order of the array
WithoutPredecessors(orders) ==
    LET NoDeps(wo) == Len(wo.dependsOnWorkOrderIds) = 0
    IN Numbers(SelectSeq(orders, NoDeps))

\* the numbers of the orders whose last outstanding predecessor is the
\* order numbered n, all others being in the set done; in input order
ReleasedBy(n, done) ==
    LET Released(wo) == /\ n \in Range(wo.dependsOnWorkOrderIds)
                        /\ n \notin done
                        /\ Range(wo.dependsOnWorkOrderIds) \subseteq (done \cup {n})
    IN Numbers(SelectSeq(group, Released))

\* the first step of the sort seeds the queue with the orders without
\* predecessors in input order
SeedsInInputOrder ==
    (pc = "grouped" /\ pc' = "sorting") =>
        /\ queue' = WithoutPredecessors(group)
        /\ sorted' = <<>>

\* a step of the loop takes the head of the queue and appends to the queue
\* the orders this releases
DequeuesAndReleases ==
    (pc = "sorting" /\ Len(queue) > 0) =>
        /\ sorted' = Append(sorted, getWorkOrder(group, Head(queue)))
        /\ queue' = Tail(queue) \o ReleasedBy(Head(queue), Range(Numbers(sorted)))

\* C35: the linearization is Kahn's algorithm with a first-in first-out
\* queue seeded in input order: the orders without predecessors come out in
\* their input order, an order enters the queue at the moment its last
\* outstanding predecessor leaves it, and every step is a function of the
\* input and the steps before, so the same input gives the same sequence.
C35_KahnFifoInInputOrder ==
    /\ [][SeedsInInputOrder /\ DequeuesAndReleases]_vars
    /\ [](SortReturned =>
             WithoutPredecessors(sorted) = WithoutPredecessors(group))

\* a sort has returned three orders, two of them without predecessors, the
\* third released while the queue still held another order
C35_Witness ==
    /\ SortReturned
    /\ Len(sorted) = 3
    /\ Len(WithoutPredecessors(group)) = 2
    /\ Len(sorted[3].dependsOnWorkOrderIds) > 0
    /\ sorted[1].workOrderNumber \in Range(sorted[3].dependsOnWorkOrderIds)
    /\ sorted # group

\* positions in the dependency list of the next order that name an order of
\* the array which is not placed yet, and positions that name no order
UnplacedPositions ==
    {j \in 1..Len(NextOrder.dependsOnWorkOrderIds) :
        /\ NextOrder.dependsOnWorkOrderIds[j] \in Range(Numbers(workOrders))
        /\ ~mapHas(scheduledStates, NextOrder.dependsOnWorkOrderIds[j])}

MissingPositions ==
    {j \in 1..Len(NextOrder.dependsOnWorkOrderIds) :
        NextOrder.dependsOnWorkOrderIds[j] \notin Range(Numbers(workOrders))}

\* the placer has reached a movable order with a predecessor that is in
\* the input but not placed
ReachedUnplacedPredecessor == pc = "regular" /\ UnplacedPositions # {}

\* the step fails and places nothing
FailsWithoutPlacing ==
    /\ pc' = "failed"
    /\ scheduledStates' = scheduledStates
    /\ changes' = changes
    /\ result' = NoResult

\* C36 as stated: when the placer reaches a movable order one of whose
\* predecessors is in the input but not yet placed, the invocation fails
\* with the dependency-not-scheduled error and the order is not placed.
C36_UnplacedPredecessorFails ==
    [][ReachedUnplacedPredecessor =>
           (FailsWithoutPlacing /\ error'.kind = "dependency_not_scheduled")]_vars

\* C36 as amended: the order is not placed and the invocation fails; the
\* error is dependency-not-scheduled, naming the order and its first
\* unplaced predecessor, unless an identifier listed earlier in the
\* dependency list names no order of the input, in which case the error is
\* dependency-not-found (missing predecessor) naming that identifier.
C36_UnplacedPredecessorFailsInListOrder ==
    [][ReachedUnplacedPredecessor =>
           LET first == CHOOSE j \in UnplacedPositions \cup MissingPositions :
                           \A k \in UnplacedPositions \cup MissingPositions : j <= k
           IN /\ FailsWithoutPlacing
              /\ error' = MkError(IF first \in MissingPositions
                                  THEN "missing_predecessor"
                                  ELSE "dependency_not_scheduled",
                                  <<NextOrder.workOrderNumber,
                                    NextOrder.dependsOnWorkOrderIds[first]>>)]_vars

\* the invocation has failed on an order placed before its predecessor,
\* after another order had been placed
C36_Witness ==
    /\ Failed
    /\ error.kind = "dependency_not_scheduled"
    /\ Len(scheduledStates) > 0
    /\ error.ids[2] \in Range(Numbers(workOrders))
    /\ error.ids[2] # error.ids[1]
    /\ ~mapHas(scheduledStates, error.ids[2])

\* the windows of the center, as [startDate, endDate] records
Windows == Range(workCenter.maintenanceWindows)

\* C37: the reason classification takes maintenance windows with exclusive
\* endpoints: a change record carries the maintenance-window reason only if
\* the order's original interval strictly overlaps the window it names
\* (original start < window end and original end > window start); an
\* original interval that only touches a window's endpoint is not classified
\* so, although is_working blocks that endpoint instant.
C37_MaintenanceReasonStrictOverlap ==
    \A k \in 1..Len(changes) :
        changes[k].reason.type = "maintenance" =>
            /\ changes[k].delayMinutes # 0
            /\ [startDate |-> changes[k].reason.windowStart,
                endDate |-> changes[k].reason.windowEnd] \in Windows
            /\ changes[k].originalStartDate < changes[k].reason.windowEnd
            /\ changes[k].originalEndDate > changes[k].reason.windowStart

\* an order whose original start is the last instant of a window, which
\* is_working blocks, has been displaced and is not classified maintenance
C37_Witness ==
    \E k \in 1..Len(changes) :
        /\ changes[k].delayMinutes > 0
        /\ \E w \in Windows : changes[k].originalStartDate = w.endDate
        /\ \A w \in Windows : ~(/\ changes[k].originalStartDate < w.endDate
                                /\ changes[k].originalEndDate > w.startDate)
        /\ \E sh \in workCenter.shifts : Admits(sh, changes[k].originalStartDate)
        /\ ~isWorkingTime(workCenter, changes[k].originalStartDate)
        /\ changes[k].reason.type # "maintenance"

\* displacement of the order at position i of the result: new start minus
\* original start
displacement(i) == newStart(i) - workOrders[i].startDate

\* sum of the displacements of the orders at positions 1..n
RECURSIVE DisplacementSum(_)
DisplacementSum(n) == IF n = 0 THEN 0 ELSE displacement(n) + DisplacementSum(n - 1)

\* C38: in every result the summary agrees with the change records:
\* changedWorkOrders is the number of records with a displacement above 0,
\* changed plus unchanged is totalWorkOrders, the number of input orders,
\* maintenanceWorkOrders is the number of fixed orders, none of which is
\* counted as changed, and totalDelayMinutes is the sum of the displacements
\* and not negative.
C38_SummaryConsistent ==
    Succeeded =>
        LET summary == result.summary
            records == 1..Len(result.changes)
            moved == {k \in records : result.changes[k].delayMinutes > 0}
            fixed == {i \in Placed : workOrders[i].isMaintenance}
        IN /\ summary.changedWorkOrders = Cardinality(moved)
           /\ summary.changedWorkOrders = Cardinality({i \in Placed : displacement(i) > 0})
           /\ summary.changedWorkOrders + summary.unchangedWorkOrders = summary.totalWorkOrders
           /\ summary.totalWorkOrders = Len(OriginalOrder)
           /\ summary.unchangedWorkOrders >= 0
           /\ summary.maintenanceWorkOrders = Cardinality(fixed)
           /\ \A i \in fixed : displacement(i) = 0
           /\ \A k \in moved : ~getWorkOrder(workOrders, result.changes[k].workOrderNumber).isMaintenance
           /\ summary.totalDelayMinutes = DisplacementSum(Len(workOrders))
           /\ summary.totalDelayMinutes >= 0

\* a result with a fixed order and at least two displaced orders whose
\* displacements differ from one minute each
C38_Witness ==
    /\ Succeeded
    /\ result.summary.maintenanceWorkOrders >= 1
    /\ result.summary.changedWorkOrders >= 2
    /\ result.summary.unchangedWorkOrders >= 1
    /\ result.summary.totalDelayMinutes > result.summary.changedWorkOrders

\* the input orders whose workCenterId names no work center of the invocation
Unassigned == {i \in 1..Len(input) : input[i].workCenterId # workCenter.name}

\* the pipeline has come to its end for the work center
PipelineEnded == entry = "pipeline" /\ pc \in {"done", "failed", "skipped"}

\* C39: in the pipeline (group by work center, then linearize and schedule
\* each group), an order whose workCenterId names no work center of the
\* invocation makes the invocation fail with the foreign-order error; it is
\* never silently left out of every group and of the result.
C39_UnknownCenterRejected ==
    (PipelineEnded /\ Unassigned # {}) =>
        /\ pc = "failed"
        /\ error.kind = "foreign_order"
        /\ \A i \in Unassigned : input[i].workOrderNumber \in Range(error.ids)

====
